---- MODULE Spec2Model ----
(***************************************************************************)
(* BioInsight: the entity resolution pipeline (LLMService.extract_entities *)
(* with its collaborators) and the evidence fetcher                        *)
(* (get_drug_target_interactions), as state machines.                      *)
(*                                                                         *)
(* A Python str is a sequence of one-character strings; Python's None is   *)
(* the value None below.                                                   *)
(***************************************************************************)
EXTENDS Integers, Sequences, FiniteSets, TLC

None == <<"<None>">>

\* Python truthiness of an Optional[str]
Truthy(x) == x # None /\ x # <<>>

(***************************************************************************)
(* str primitives                                                          *)
(***************************************************************************)
UpperLetters ==
    <<"A","B","C","D","E","F","G","H","I","J","K","L","M",
      "N","O","P","Q","R","S","T","U","V","W","X","Y","Z">>

LowerLetters ==
    <<"a","b","c","d","e","f","g","h","i","j","k","l","m",
      "n","o","p","q","r","s","t","u","v","w","x","y","z">>

DigitChars == {"0","1","2","3","4","5","6","7","8","9"}

IndexOf(c, s) ==
    IF \E i \in 1..Len(s) : s[i] = c
    THEN CHOOSE i \in 1..Len(s) : s[i] = c
    ELSE 0

isupper(c) == IndexOf(c, UpperLetters) > 0

islower(c) == IndexOf(c, LowerLetters) > 0

\* the Greek small letter alpha (U+03B1), written "<alpha>", is the one non-ASCII
\* letter of the alias table
isalnum(c) == isupper(c) \/ islower(c) \/ c \in DigitChars \/ c = "<alpha>"

isspace(c) == c = " "

\* \w of the re module
IsWordChar(c) == isalnum(c) \/ c = "_"

lower_char(c) == IF isupper(c) THEN LowerLetters[IndexOf(c, UpperLetters)] ELSE c

upper_char(c) == IF islower(c) THEN UpperLetters[IndexOf(c, LowerLetters)] ELSE c

lower(s) == [i \in 1..Len(s) |-> lower_char(s[i])]

upper(s) == [i \in 1..Len(s) |-> upper_char(s[i])]

\* sub in s (substring test)
Contains(s, sub) ==
    \E i \in 0..(Len(s) - Len(sub)) :
        \A k \in 1..Len(sub) : s[i + k] = sub[k]

RECURSIVE FilterChars(_, _)
\* ''.join(char for char in s if char.isalnum() or char in extra)
FilterChars(s, extra) ==
    IF s = <<>> THEN <<>>
    ELSE (IF isalnum(Head(s)) \/ Head(s) \in extra THEN <<Head(s)>> ELSE <<>>)
         \o FilterChars(Tail(s), extra)

RECURSIVE strip(_)
strip(s) ==
    IF s = <<>> THEN s
    ELSE IF isspace(s[1]) THEN strip(Tail(s))
    ELSE IF isspace(s[Len(s)]) THEN strip(SubSeq(s, 1, Len(s) - 1))
    ELSE s

RECURSIVE JoinWith(_, _)
\* sep.join(parts)
JoinWith(parts, sep) ==
    IF parts = <<>> THEN <<>>
    ELSE IF Len(parts) = 1 THEN parts[1]
    ELSE parts[1] \o sep \o JoinWith(Tail(parts), sep)

SeqToSet(s) == {s[i] : i \in 1..Len(s)}

\* SortedByLenDesc without the sort: list(set(xs)) in any order
SortedByLenDesc_Unsorted(S) ==
    {p \in [1..Cardinality(S) -> S] :
        \A i, j \in 1..Cardinality(S) : i # j => p[i] # p[j]}

\* sorted(list(set(xs)), key=len, reverse=True): the sort is stable on the
\* iteration order of a set of str, which the interpreter's per-process hash
\* seed fixes; every order of equally long strings is a possible result.
SortedByLenDesc(S) ==
    {p \in [1..Cardinality(S) -> S] :
        /\ \A i, j \in 1..Cardinality(S) : i # j => p[i] # p[j]
        /\ \A i \in 1..(Cardinality(S) - 1) : Len(p[i]) >= Len(p[i + 1])}

(***************************************************************************)
(* app/utils/extraction.py                                                 *)
(***************************************************************************)
W_and == <<"a","n","d">>
W_of == <<"o","f">>

STOPWORDS_short ==
    {<<"h","o","w">>, <<"d","o","e","s">>, <<"w","i","t","h">>, <<"i","s">>,
     <<"t","h","e">>, W_and, <<"w","h","a","t">>, <<"t","e","l","l">>,
     <<"m","e">>, <<"a","b","o","u","t">>, W_of, <<"o","n">>, <<"i","n">>,
     <<"t","o">>, <<"f","o","r">>, <<"a">>, <<"a","n">>, <<"a","r","e">>,
     <<"w","a","s">>, <<"w","e","r","e">>, <<"h","a","s">>, <<"h","a","v","e">>,
     <<"h","a","d">>, <<"b","e","e","n">>, <<"b","e">>, <<"b","y">>, <<"a","t">>,
     <<"f","r","o","m">>, <<"t","h","i","s">>, <<"t","h","a","t">>,
     <<"w","h","i","c","h">>, <<"w","h","o">>, <<"w","h","o","m">>,
     <<"w","h","o","s","e">>, <<"i","t","s">>, <<"a","c","t","s">>,
     <<"d","r","u","g">>, <<"w","o","r","k">>, <<"w","o","r","k","s">>,
     <<"s","h","o","w">>, <<"s","h","o","w","s">>, <<"b","i","n","d","s">>,
     <<"b","i","n","d">>}

STOPWORDS_long ==
    {<<"i","n","t","e","r","a","c","t">>,
     <<"i","n","t","e","r","a","c","t","i","o","n">>,
     <<"m","e","c","h","a","n","i","s","t","i","c","a","l","l","y">>,
     <<"m","e","c","h","a","n","i","s","m">>,
     <<"a","c","t","s"," ","o","n">>,
     <<"b","e","t","w","e","e","n">>,
     <<"r","e","l","a","t","i","o","n","s","h","i","p">>,
     <<"t","a","r","g","e","t">>, <<"e","x","p","l","a","i","n">>,
     <<"w","o","r","k","i","n","g">>,
     <<"a","f","f","e","c","t">>, <<"a","f","f","e","c","t","s">>,
     <<"i","m","p","a","c","t">>, <<"i","m","p","a","c","t","s">>,
     <<"i","n","f","l","u","e","n","c","e">>,
     <<"i","n","f","l","u","e","n","c","e","s">>,
     <<"b","i","n","d","i","n","g">>,
     <<"i","n","h","i","b","i","t">>, <<"i","n","h","i","b","i","t","s">>,
     <<"i","n","h","i","b","i","t","o","r">>,
     <<"i","n","h","i","b","i","t","i","o","n">>,
     <<"a","c","t","i","v","a","t","e">>, <<"a","c","t","i","v","a","t","e","s">>,
     <<"a","c","t","i","v","a","t","i","o","n">>,
     <<"m","o","d","u","l","a","t","e">>, <<"m","o","d","u","l","a","t","e","s">>,
     <<"m","o","d","u","l","a","t","i","o","n">>,
     <<"r","e","l","a","t","e">>, <<"r","e","l","a","t","e","d">>,
     <<"r","e","l","a","t","i","n","g">>, <<"r","e","l","a","t","i","o","n">>,
     <<"c","o","n","n","e","c","t","i","o","n">>,
     <<"c","o","n","n","e","c","t","e","d">>}

STOPWORDS == STOPWORDS_short \cup STOPWORDS_long

greek_connectors ==
    {<<"a","l","p","h","a">>, <<"b","e","t","a">>, <<"g","a","m","m","a">>,
     <<"d","e","l","t","a">>, <<"k","a","p","p","a">>, <<"s","i","g","m","a">>,
     <<"o","m","e","g","a">>}

weak_connectors == {W_of, W_and}

all_connectors == greek_connectors \cup weak_connectors

\* '-', en dash (U+2013), em dash (U+2014); a non-ASCII character is written
\* as its name between angle brackets and is one character
DashTokens == {<<"-">>, <<"<endash>">>, <<"<emdash>">>}

HasHyphen(w) == \E i \in 1..Len(w) : w[i] = "-"

RECURSIVE WordRunEnd(_, _)
\* the index after the longest run of [\w-] starting at i
WordRunEnd(text, i) ==
    IF i <= Len(text) /\ (IsWordChar(text[i]) \/ text[i] = "-")
    THEN WordRunEnd(text, i + 1)
    ELSE i

RECURSIVE FindAllTokens(_, _)
\* re.findall(r"[\w-]+|[^\w\s]", text) from position i
FindAllTokens(text, i) ==
    IF i > Len(text) THEN <<>>
    ELSE IF IsWordChar(text[i]) \/ text[i] = "-"
         THEN <<SubSeq(text, i, WordRunEnd(text, i) - 1)>>
              \o FindAllTokens(text, WordRunEnd(text, i))
    ELSE IF isspace(text[i]) THEN FindAllTokens(text, i + 1)
    ELSE <<<<text[i]>>>> \o FindAllTokens(text, i + 1)

\* the inner while loop's condition on next_word
PhraseAbsorbs(next_word) ==
    /\ Len(next_word) > 0
    /\ \/ isupper(next_word[1])
       \/ HasHyphen(next_word)
       \/ next_word \in DashTokens
       \/ lower(next_word) \in all_connectors

RECURSIVE PhraseEnd(_, _)
\* the value of j when the inner while loop ends
PhraseEnd(original_words, j) ==
    IF j <= Len(original_words) /\ PhraseAbsorbs(original_words[j])
    THEN PhraseEnd(original_words, j + 1)
    ELSE j

RECURSIVE TrimWeak(_)
\* while phrase_parts and phrase_parts[-1].lower() in weak_connectors: pop()
TrimWeak(phrase_parts) ==
    IF phrase_parts # <<>> /\ lower(phrase_parts[Len(phrase_parts)]) \in weak_connectors
    THEN TrimWeak(SubSeq(phrase_parts, 1, Len(phrase_parts) - 1))
    ELSE phrase_parts

RECURSIVE RemoveSpaces(_)
RemoveSpaces(s) ==
    IF s = <<>> THEN <<>>
    ELSE (IF Head(s) = " " THEN <<>> ELSE <<Head(s)>>) \o RemoveSpaces(Tail(s))

\* what one phrase starting at original_words[i] and ending before j appends
PhraseCandidates(original_words, i, j) ==
    LET phrase_parts == TrimWeak(SubSeq(original_words, i, j - 1))
        phrase == JoinWith(phrase_parts, <<" ">>)
        clean_phrase == strip(FilterChars(phrase, {" ", "-"}))
        no_space == RemoveSpaces(clean_phrase)
    IN  IF phrase_parts = <<>> THEN <<>>
        ELSE IF lower(clean_phrase) \notin STOPWORDS /\ Len(clean_phrase) > 1
        THEN <<clean_phrase>>
             \o (IF no_space # clean_phrase /\ Len(no_space) > 3
                 THEN <<no_space>> ELSE <<>>)
        ELSE <<>>

RECURSIVE Strategy1(_, _, _)
\* STRATEGY 1: multi-word capitalized phrases, from index i
Strategy1(original_words, i, candidates) ==
    IF i > Len(original_words) THEN candidates
    ELSE LET word == original_words[i]
         IN  IF Len(word) > 1 /\ (isupper(word[1]) \/ HasHyphen(word))
             THEN LET j == PhraseEnd(original_words, i + 1)
                  IN  Strategy1(original_words, IF j > i THEN j ELSE i + 1,
                                candidates \o PhraseCandidates(original_words, i, j))
             ELSE Strategy1(original_words, i + 1, candidates)

\* any(clean_word in candidate for candidate in candidates)
Subsumed(clean_word, candidates) ==
    \E k \in 1..Len(candidates) : Contains(candidates[k], clean_word)

RECURSIVE Strategy2(_, _, _)
\* STRATEGY 2: individual capitalized words
Strategy2(original_words, i, candidates) ==
    IF i > Len(original_words) THEN candidates
    ELSE LET word == original_words[i]
             clean_word == FilterChars(word, {"-"})
         IN  IF /\ Len(word) > 1 /\ isupper(word[1])
                /\ lower(clean_word) \notin STOPWORDS /\ Len(clean_word) > 1
                /\ ~Subsumed(clean_word, candidates)
             THEN Strategy2(original_words, i + 1, Append(candidates, clean_word))
             ELSE Strategy2(original_words, i + 1, candidates)

RECURSIVE Strategy3(_, _, _)
\* STRATEGY 3: significant long words
Strategy3(original_words, i, candidates) ==
    IF i > Len(original_words) THEN candidates
    ELSE LET clean_word == FilterChars(original_words[i], {"-"})
         IN  IF /\ Len(clean_word) > 5
                /\ lower(clean_word) \notin STOPWORDS
                /\ ~Subsumed(clean_word, candidates)
             THEN Strategy3(original_words, i + 1, Append(candidates, clean_word))
             ELSE Strategy3(original_words, i + 1, candidates)

\* the list `candidates` before the final sorted(list(set(...)))
CandidateList(query) ==
    LET original_words == FindAllTokens(query, 1)
    IN  Strategy3(original_words, 1,
            Strategy2(original_words, 1,
                Strategy1(original_words, 1, <<>>)))

\* the lists generate_smart_candidates(query) can return
generate_smart_candidates(query) == SortedByLenDesc(SeqToSet(CandidateList(query)))

\* 1. Normalization Mappings, in declaration order: <<alias, formal>>
ENTITY_MAPPINGS ==
    <<
      <<<<"v","e","r","g","f","r","2">>,
        <<"V","E","G","F","R","2">>>>,
      <<<<"v","e","g","f","-","r","2">>,
        <<"V","E","G","F","R","2">>>>,
      <<<<"v","e","g","f","r","-","2">>,
        <<"V","E","G","F","R","2">>>>,
      <<<<"v","-","e","g","f","r">>,
        <<"V","E","G","F","R">>>>,
      <<<<"b","c","r"," ","a","b","l">>,
        <<"B","C","R","-","A","B","L","1">>>>,
      <<<<"b","c","r","-","a","b","l">>,
        <<"B","C","R","-","A","B","L","1">>>>,
      <<<<"h","e","r","2">>,
        <<"E","R","B","B","2">>>>,
      <<<<"h","e","r","-","2">>,
        <<"E","R","B","B","2">>>>,
      <<<<"h","e","r"," ","2">>,
        <<"E","R","B","B","2">>>>,
      <<<<"a","m","p","k">>,
        <<"P","R","K","A","A","1">>>>,
      <<<<"v","e","g","f","r">>,
        <<"K","D","R">>>>,
      <<<<"v","e","g","f","r","2">>,
        <<"K","D","R">>>>,
      <<<<"e","g","f","r">>,
        <<"E","G","F","R">>>>,
      <<<<"l","i","p","i","t","o","r">>,
        <<"A","t","o","r","v","a","s","t","a","t","i","n">>>>,
      <<<<"h","m","g","-","c","o","a"," ","r","e","d","u","c","t","a","s","e">>,
        <<"H","M","G","C","R">>>>,
      <<<<"h","m","g"," ","c","o","a"," ","r","e","d","u","c","t","a","s","e">>,
        <<"H","M","G","C","R">>>>,
      <<<<"<alpha>","-","s","y","n","u","c","l","e","i","n">>,
        <<"S","N","C","A">>>>,
      <<<<"a","l","p","h","a","-","s","y","n","u","c","l","e","i","n">>,
        <<"S","N","C","A">>>>,
      <<<<"a","l","p","h","a"," ","s","y","n","u","c","l","e","i","n">>,
        <<"S","N","C","A">>>>
    >>

\* whether position i of text (1-based, Len(text)+1 allowed) is at a \b
AtWordBoundary(text, i) ==
    LET before == i > 1 /\ IsWordChar(text[i - 1])
        after == i <= Len(text) /\ IsWordChar(text[i])
    IN  before # after

\* whether rf'\b{alias}\b' matches text at position i
AliasMatchesAt(text, alias, i) ==
    /\ i + Len(alias) - 1 <= Len(text)
    /\ SubSeq(text, i, i + Len(alias) - 1) = alias
    /\ AtWordBoundary(text, i)
    /\ AtWordBoundary(text, i + Len(alias))

RECURSIVE ReSub(_, _, _, _)
\* re.sub(rf'\b{re.escape(alias)}\b', repl, text), scanning from position i
ReSub(text, alias, repl, i) ==
    IF i > Len(text) THEN <<>>
    ELSE IF AliasMatchesAt(text, alias, i)
         THEN repl \o ReSub(text, alias, repl, i + Len(alias))
    ELSE <<text[i]>> \o ReSub(text, alias, repl, i + 1)

RECURSIVE ApplyMappings(_, _)
\* the for loop of normalize_text from mapping k on
ApplyMappings(lowered, k) ==
    IF k > Len(ENTITY_MAPPINGS) THEN lowered
    ELSE ApplyMappings(
            ReSub(lowered, ENTITY_MAPPINGS[k][1], lower(ENTITY_MAPPINGS[k][2]), 1),
            k + 1)

normalize_text(text) == ApplyMappings(lower(text), 1)

\* the lists get_candidates(text) can return
get_candidates(text) ==
    LET original_candidates == SeqToSet(CandidateList(text))
        normalized_text == normalize_text(text)
        normalized_candidates ==
            IF normalized_text # lower(text)
            THEN SeqToSet(CandidateList(normalized_text))
            ELSE {}
    IN  SortedByLenDesc(original_candidates \cup normalized_candidates)

(***************************************************************************)
(* Bounds and the inputs drawn within them                                 *)
(***************************************************************************)
\* words of a user query
MaxQueryWords == 3

\* hits of one remote search response
MaxHits == 2

W_Imatinib == <<"I","m","a","t","i","n","i","b">>
W_BCR_ABL1 == <<"B","C","R","-","A","B","L","1">>
W_helps == <<"h","e","l","p","s">>

QueryWords == {W_Imatinib, W_BCR_ABL1, W_helps, W_and}

\* the user queries: up to MaxQueryWords words separated by one space
Queries ==
    {JoinWith(ws, <<" ">>) :
        ws \in UNION {[1..n -> QueryWords] : n \in 0..MaxQueryWords}}

(***************************************************************************)
(* Collaborator: the remote graph-style entity search, and search_entity   *)
(* (app/services/opentargets.py)                                           *)
(***************************************************************************)
ID_CHEMBL941 == <<"CHEMBL941">>
ID_CHEMBL1421 == <<"CHEMBL1421">>
ID_ENSG_ABL1 == <<"ENSG00000097007">>
ID_ENSG_EGFR == <<"ENSG00000146648">>
NAME_IMATINIB == <<"I","M","A","T","I","N","I","B">>
NAME_DASATINIB == <<"D","A","S","A","T","I","N","I","B">>
NAME_ABL1 == <<"A","B","L","1">>
NAME_EGFR == <<"E","G","F","R">>

\* the hits the remote search can list for an entity kind
HitPool(entity_type) ==
    IF entity_type = "drug"
    THEN {[id |-> ID_CHEMBL941, name |-> NAME_IMATINIB],
          [id |-> ID_CHEMBL1421, name |-> NAME_DASATINIB]}
    ELSE {[id |-> ID_ENSG_ABL1, name |-> NAME_ABL1],
          [id |-> ID_ENSG_EGFR, name |-> NAME_EGFR]}

HitLists(entity_type) ==
    UNION {[1..n -> HitPool(entity_type)] : n \in 0..MaxHits}

\* What client.post / response.json() can do: raise (timeout, connection
\* error), answer with a status code, and on 200 carry a body that is either
\* the expected JSON shape with a hit list or not (json_ok = FALSE: not JSON,
\* or "data" / "search" null, or a hit without "id" / "name").
SearchResponses(entity_type) ==
    {[raised |-> TRUE, status |-> 0, json_ok |-> FALSE, hits |-> <<>>]}
    \cup {[raised |-> FALSE, status |-> st, json_ok |-> FALSE, hits |-> <<>>] :
            st \in {200, 500}}
    \cup {[raised |-> FALSE, status |-> 200, json_ok |-> TRUE, hits |-> h] :
            h \in HitLists(entity_type)}

\* an exception leaving a function, where a return value is expected
Raised == <<"<raised>">>

\* search_entity without its try / except: a transport error leaves it
search_entity_Propagating(response) ==
    IF response.raised THEN Raised
    ELSE IF response.status = 200 /\ response.json_ok /\ Len(response.hits) > 0
    THEN <<response.hits[1].id, response.hits[1].name>>
    ELSE <<None, None>>

\* search_entity's return value for the remote's response: <<id, name>>
search_entity(response) ==
    IF response.raised THEN <<None, None>>              \* except Exception
    ELSE IF response.status = 200
         THEN IF ~response.json_ok THEN <<None, None>>  \* raised inside try
              ELSE IF Len(response.hits) > 0
                   THEN <<response.hits[1].id, response.hits[1].name>>
                   ELSE <<None, None>>
    ELSE <<None, None>>

(***************************************************************************)
(* Collaborator: the seeded reference corpus, and search_candidates        *)
(* (app/services/chroma_rag_service.py).  Distances are in hundredths.     *)
(***************************************************************************)
DOC_Imatinib == <<"I","m","a","t","i","n","i","b">>
DOC_Aspirin == <<"A","s","p","i","r","i","n">>
DOC_BCR_ABL1 == <<"B","C","R","-","A","B","L","1">>
DOC_ERBB2 == <<"E","R","B","B","2"," ","(","H","E","R","2",")">>

DrugDocs == {DOC_Imatinib, DOC_Aspirin}

TargetDocs == {DOC_BCR_ABL1, DOC_ERBB2}

\* best_d = best_t = 0.4
StrictThreshold == 40

\* distances a 1-nearest-neighbour query can report: two below the
\* threshold, the threshold itself
Distances == {10, 25, 40}

\* collection.query(query_texts=candidates, n_results=1): per candidate the
\* nearest document and its distance
QueryResults(docs, n) == [1..n -> [doc : docs, dist : Distances]]

RECURSIVE IndexOfSub(_, _, _)
\* the first position >= i where sub starts in s, 0 if none
IndexOfSub(s, sub, i) ==
    IF i + Len(sub) - 1 > Len(s) THEN 0
    ELSE IF SubSeq(s, i, i + Len(sub) - 1) = sub THEN i
    ELSE IndexOfSub(s, sub, i + 1)

\* doc.split(" (")[0] if "(" in doc else doc
CleanSymbol(doc) ==
    IF Contains(doc, <<"(">>) /\ IndexOfSub(doc, <<" ", "(">>, 1) > 0
    THEN SubSeq(doc, 1, IndexOfSub(doc, <<" ", "(">>, 1) - 1)
    ELSE doc

RECURSIVE BestMatch_AtThreshold(_, _, _, _)
\* BestMatch with `<=` in place of `<`
BestMatch_AtThreshold(res, i, best, final) ==
    IF i > Len(res) THEN <<best, final>>
    ELSE IF res[i].dist <= best
         THEN BestMatch_AtThreshold(res, i + 1, res[i].dist, res[i].doc)
         ELSE BestMatch_AtThreshold(res, i + 1, best, final)

RECURSIVE BestMatch(_, _, _, _)
\* the loops over enumerate(res["distances"]): <<best, final>> from entry i
BestMatch(res, i, best, final) ==
    IF i > Len(res) THEN <<best, final>>
    ELSE IF res[i].dist < best
         THEN BestMatch(res, i + 1, res[i].dist, res[i].doc)
         ELSE BestMatch(res, i + 1, best, final)

\* final_drug of search_candidates for the drug collection's answer
RagFinalDrug(d_res) == BestMatch(d_res, 1, StrictThreshold, None)[2]

\* final_target of search_candidates for the target collection's answer
RagFinalTarget(t_res) ==
    LET doc == BestMatch(t_res, 1, StrictThreshold, None)[2]
    IN  IF doc = None THEN None ELSE CleanSymbol(doc)

(***************************************************************************)
(* Collaborator: the text-generation capability, and _extract_with_llm     *)
(* (app/services/llm.py)                                                   *)
(***************************************************************************)
SUGG_gleevec == <<"g","l","e","e","v","e","c">>
SUGG_abl == <<"a","b","l"," ","k","i","n","a","s","e">>

\* a dict as _extract_with_llm returns it: nonempty is its truth value,
\* drug / target are .get("drug") / .get("target")
EmptyDict == [nonempty |-> FALSE, drug |-> None, target |-> None]

\* What _call_llm yields: it raises (timeout, HTTP error, connection refused),
\* or returns text that, once the <think> block is removed, has no {...} span
\* ("no_json"), has a span json.loads rejects ("bad_json"), or has a span that
\* parses to a dict ("json") whose "drug" / "target" are a name, "" or null.
LLMResponses ==
    {[kind |-> k, drug |-> None, target |-> None] : k \in {"raise", "no_json", "bad_json"}}
    \cup {[kind |-> "json", drug |-> d, target |-> t] :
            d \in {None, <<>>, SUGG_gleevec}, t \in {None, SUGG_abl}}

\* _extract_with_llm's return value for the generator's response
extract_with_llm(response) ==
    IF response.kind = "raise" THEN EmptyDict          \* except Exception
    ELSE IF response.kind = "no_json" THEN EmptyDict   \* start == -1 or end == -1
    ELSE IF response.kind = "bad_json" THEN EmptyDict  \* the regex retry raises too
    ELSE [nonempty |-> TRUE, drug |-> response.drug, target |-> response.target]

(***************************************************************************)
(* LLMService.extract_entities (app/services/llm.py), one run              *)
(***************************************************************************)
VARIABLES
    pc,             \* position in extract_entities
    user_query,     \* the argument
    chroma_rag,     \* self.chroma_rag is set (FALSE: None, its construction failed)
    rag_candidates, \* search_candidates: candidates
    final_drug,     \* search_candidates: final_drug
    final_target,   \* search_candidates: final_target
    local_drug,
    local_target,
    candidates,     \* the stage-2 candidate list
    idx,            \* position of search_term in candidates
    llm_entities,
    calls,          \* history: the collaborator calls issued, in order
    result          \* the returned pair, NoResult before the return

ex_vars == <<pc, user_query, chroma_rag, rag_candidates, final_drug, final_target,
             local_drug, local_target, candidates, idx, llm_entities, calls, result>>

\* get_drug_target_interactions (app/services/opentargets.py), one call
VARIABLES
    f_pc,                 \* position in get_drug_target_interactions
    target_id,            \* the argument
    max_retries,          \* the argument
    attempt,              \* the loop variable of query (a)
    se_response,          \* what the remote search answered to search_entity
    drug_id,
    canonical_drug_name,
    all_evidence,
    evidence_a,           \* history: all_evidence as query (a) left it
    f_log,                \* history: remote requests and sleeps, in order
    f_result              \* the returned list

fe_vars == <<f_pc, target_id, max_retries, attempt, se_response, drug_id,
             canonical_drug_name, all_evidence, evidence_a, f_log, f_result>>

\* perform_analysis (app/main.py) from the evidence to the confidence, or a
\* direct call of calculate_confidence (app/utils/scoring.py)
VARIABLES
    a_pc,                 \* position in the analysis
    caller,               \* who calls calculate_confidence
    raw_evidence,         \* all_evidence of get_drug_target_interactions before
                          \* the aggregation
    matches,              \* the argument of calculate_confidence
    confidence_info,      \* what calculate_confidence returned
    structured_evidence,  \* the digest handed to analyze
    explanation,          \* what analyze returned
    llm_prompts           \* the prompts sent to the generative backend by analyze

an_vars == <<a_pc, caller, raw_evidence, matches, confidence_info,
             structured_evidence, explanation, llm_prompts>>

vars == <<ex_vars, fe_vars, an_vars>>

\* a dict that is empty ({})
EmptyMapping == [empty |-> TRUE]

\* no analysis is running
AnalysisIdle ==
    /\ a_pc = "idle"
    /\ caller = "none"
    /\ raw_evidence = <<>>
    /\ matches = <<>>
    /\ confidence_info = EmptyMapping
    /\ structured_evidence = EmptyMapping
    /\ explanation = None
    /\ llm_prompts = <<>>

NoResponse == [raised |-> FALSE, status |-> 0, json_ok |-> FALSE, hits |-> <<>>]

\* no call of get_drug_target_interactions is running
FetchIdle ==
    /\ f_pc = "idle"
    /\ target_id = None
    /\ max_retries = 0
    /\ attempt = 0
    /\ se_response = NoResponse
    /\ drug_id = None
    /\ canonical_drug_name = None
    /\ all_evidence = <<>>
    /\ evidence_a = <<>>
    /\ f_log = <<>>
    /\ f_result = <<>>

NoResult == <<>>

\* a call in the history: who was called (fn) with what (arg) from which step,
\* whether it has returned (returned) and the name it returned (name)
Call(fn, arg, step) ==
    [fn |-> fn, arg |-> arg, step |-> step, returned |-> FALSE, name |-> None]

\* a coroutine awaits one call at a time: the call awaited is the last issued
Returning(fn, name) ==
    /\ calls # <<>>
    /\ calls[Len(calls)].fn = fn
    /\ ~calls[Len(calls)].returned
    /\ calls' = [calls EXCEPT ![Len(calls)].returned = TRUE,
                              ![Len(calls)].name = name]

ExtractInit ==
    /\ FetchIdle
    /\ AnalysisIdle
    /\ pc = "step1"
    /\ user_query \in Queries
    /\ chroma_rag \in BOOLEAN
    /\ rag_candidates = <<>>
    /\ final_drug = None
    /\ final_target = None
    /\ local_drug = None
    /\ local_target = None
    /\ candidates = <<>>
    /\ idx = 0
    /\ llm_entities = EmptyDict
    /\ calls = <<>>
    /\ result = NoResult

\* llm.py 204, 213-214: self.chroma_rag is None, step 1 is skipped
Step1Skipped ==
    /\ pc = "step1"
    /\ ~chroma_rag
    /\ pc' = "step2"
    /\ UNCHANGED <<fe_vars, an_vars, user_query, chroma_rag, rag_candidates, final_drug, final_target,
                   local_drug, local_target, candidates, idx, llm_entities, calls,
                   result>>

\* llm.py 200, 205 and chroma_rag_service.py 130-140: normalize, get the
\* candidates; with none, search_candidates returns {None, None} at once
RagSearchBegin ==
    /\ pc = "step1"
    /\ chroma_rag
    /\ \E c \in get_candidates(normalize_text(user_query)) :
        /\ rag_candidates' = c
        /\ pc' = IF c = <<>> THEN "step2" ELSE "rag_drugs"
    /\ UNCHANGED <<fe_vars, an_vars, user_query, chroma_rag, final_drug, final_target, local_drug,
                   local_target, candidates, idx, llm_entities, calls, result>>

\* chroma_rag_service.py 142, 145-148: the drug collection answers, or raises
RagQueryDrugs ==
    /\ pc = "rag_drugs"
    /\ \/ /\ pc' = "raised"
          /\ UNCHANGED final_drug
       \/ \E d_res \in QueryResults(DrugDocs, Len(rag_candidates)) :
            /\ final_drug' = RagFinalDrug(d_res)
            /\ pc' = "rag_targets"
    /\ calls' = Append(calls, [Call("drugs_collection.query", rag_candidates, 1)
                                EXCEPT !.returned = TRUE])
    /\ UNCHANGED <<fe_vars, an_vars, user_query, chroma_rag, rag_candidates, final_target, local_drug,
                   local_target, candidates, idx, llm_entities, result>>

\* AfterRag without the early return of llm.py 209-211
AfterRag_NoEarlyExit(drug, target) ==
    /\ local_drug' = drug
    /\ local_target' = target
    /\ result' = result
    /\ pc' = "step2"

\* what extract_entities does with rag_entities (llm.py 206-212)
AfterRag(drug, target) ==
    /\ local_drug' = drug
    /\ local_target' = target
    /\ IF Truthy(drug) /\ Truthy(target)
       THEN /\ result' = <<drug, target>>
            /\ pc' = "done"
       ELSE /\ result' = result
            /\ pc' = "step2"

\* chroma_rag_service.py 143, 150-156 and llm.py 206-212: the target
\* collection answers, or raises; search_candidates returns
RagQueryTargets ==
    /\ pc = "rag_targets"
    /\ \/ /\ pc' = "raised"
          /\ UNCHANGED <<final_target, local_drug, local_target, result>>
       \/ \E t_res \in QueryResults(TargetDocs, Len(rag_candidates)) :
            /\ final_target' = RagFinalTarget(t_res)
            /\ AfterRag(final_drug, RagFinalTarget(t_res))
    /\ calls' = Append(calls, [Call("targets_collection.query", rag_candidates, 1)
                                EXCEPT !.returned = TRUE])
    /\ UNCHANGED <<fe_vars, an_vars, user_query, chroma_rag, rag_candidates, final_drug, candidates,
                   idx, llm_entities>>

\* TargetSearchOrEnd without the test `if not local_target`
TargetSearchOrEnd_Always(target) == "s2_target"

\* where step 2 goes once the drug loop is over or was not needed (llm.py 239)
TargetSearchOrEnd(target) == IF ~Truthy(target) THEN "s2_target" ELSE "s2_end"

\* llm.py 217-227: step 2 begins, the candidates are generated
Step2Begin ==
    /\ pc = "step2"
    /\ IF ~Truthy(local_drug) \/ ~Truthy(local_target)
       THEN \E c \in generate_smart_candidates(user_query) :
                /\ candidates' = c
                /\ idx' = 1
                /\ pc' = IF ~Truthy(local_drug) THEN "s2_drug"
                         ELSE TargetSearchOrEnd(local_target)
       ELSE /\ pc' = "step3"
            /\ UNCHANGED <<candidates, idx>>
    /\ UNCHANGED <<fe_vars, an_vars, user_query, chroma_rag, rag_candidates, final_drug, final_target,
                   local_drug, local_target, llm_entities, calls, result>>

\* llm.py 229-231: the next candidate goes to search_drug_id
S2DrugCall ==
    /\ pc = "s2_drug"
    /\ idx <= Len(candidates)
    /\ calls' = Append(calls, Call("search_drug_id", candidates[idx], 2))
    /\ pc' = "s2_drug_wait"
    /\ UNCHANGED <<fe_vars, an_vars, user_query, chroma_rag, rag_candidates, final_drug, final_target,
                   local_drug, local_target, candidates, idx, llm_entities, result>>

\* S2DrugReturn without the break of llm.py 235
S2DrugReturn_NoBreak ==
    /\ pc = "s2_drug_wait"
    /\ \E response \in SearchResponses("drug") :
        LET d_name == search_entity(response)[2]
        IN  /\ Returning("search_drug_id", d_name)
            /\ local_drug' = IF Truthy(d_name) THEN d_name ELSE local_drug
            /\ idx' = idx + 1
            /\ pc' = "s2_drug"
    /\ UNCHANGED <<fe_vars, an_vars, user_query, chroma_rag, rag_candidates, final_drug,
                   final_target, local_target, candidates, llm_entities, result>>

\* llm.py 231-236: search_drug_id returns
S2DrugReturn ==
    /\ pc = "s2_drug_wait"
    /\ \E response \in SearchResponses("drug") :
        LET d_name == search_entity(response)[2]
        IN  /\ Returning("search_drug_id", d_name)
            /\ IF Truthy(d_name)
               THEN /\ local_drug' = d_name
                    /\ idx' = 1
                    /\ pc' = TargetSearchOrEnd(local_target)
               ELSE /\ local_drug' = local_drug
                    /\ idx' = idx + 1
                    /\ pc' = "s2_drug"
    /\ UNCHANGED <<fe_vars, an_vars, user_query, chroma_rag, rag_candidates, final_drug, final_target,
                   local_target, candidates, llm_entities, result>>

\* llm.py 229, 239: the drug loop ran out of candidates
S2DrugExhausted ==
    /\ pc = "s2_drug"
    /\ idx > Len(candidates)
    /\ idx' = 1
    /\ pc' = TargetSearchOrEnd(local_target)
    /\ UNCHANGED <<fe_vars, an_vars, user_query, chroma_rag, rag_candidates, final_drug, final_target,
                   local_drug, local_target, candidates, llm_entities, calls, result>>

\* SameAsDrug comparing the strings as they are
SameAsDrug_CaseSensitive(search_term, drug) == Truthy(drug) /\ search_term = drug

\* llm.py 243: the candidate is the drug already found
SameAsDrug(search_term, drug) == Truthy(drug) /\ lower(search_term) = lower(drug)

\* llm.py 241-244: continue
S2TargetSkip ==
    /\ pc = "s2_target"
    /\ idx <= Len(candidates)
    /\ SameAsDrug(candidates[idx], local_drug)
    /\ idx' = idx + 1
    /\ UNCHANGED <<fe_vars, an_vars, pc, user_query, chroma_rag, rag_candidates, final_drug,
                   final_target, local_drug, local_target, candidates, llm_entities,
                   calls, result>>

\* llm.py 241-247: the next candidate goes to search_target_id
S2TargetCall ==
    /\ pc = "s2_target"
    /\ idx <= Len(candidates)
    /\ ~SameAsDrug(candidates[idx], local_drug)
    /\ calls' = Append(calls, Call("search_target_id", candidates[idx], 2))
    /\ pc' = "s2_target_wait"
    /\ UNCHANGED <<fe_vars, an_vars, user_query, chroma_rag, rag_candidates, final_drug, final_target,
                   local_drug, local_target, candidates, idx, llm_entities, result>>

\* llm.py 247-252: search_target_id returns
S2TargetReturn ==
    /\ pc = "s2_target_wait"
    /\ \E response \in SearchResponses("target") :
        LET t_name == search_entity(response)[2]
        IN  /\ Returning("search_target_id", t_name)
            /\ IF Truthy(t_name)
               THEN /\ local_target' = t_name
                    /\ idx' = idx
                    /\ pc' = "s2_end"
               ELSE /\ local_target' = local_target
                    /\ idx' = idx + 1
                    /\ pc' = "s2_target"
    /\ UNCHANGED <<fe_vars, an_vars, user_query, chroma_rag, rag_candidates, final_drug, final_target,
                   local_drug, candidates, llm_entities, result>>

\* llm.py 241, 254: the target loop ran out of candidates
S2TargetExhausted ==
    /\ pc = "s2_target"
    /\ idx > Len(candidates)
    /\ pc' = "s2_end"
    /\ UNCHANGED <<fe_vars, an_vars, user_query, chroma_rag, rag_candidates, final_drug, final_target,
                   local_drug, local_target, candidates, idx, llm_entities, calls,
                   result>>

\* Step2End returning as soon as one side is known (`or` for `and`, llm.py 254)
Step2End_ReturnOnEither ==
    /\ pc = "s2_end"
    /\ IF Truthy(local_drug) \/ Truthy(local_target)
       THEN /\ result' = <<local_drug, local_target>>
            /\ pc' = "done"
       ELSE /\ result' = result
            /\ pc' = "step3"
    /\ UNCHANGED <<fe_vars, an_vars, user_query, chroma_rag, rag_candidates, final_drug,
                   final_target, local_drug, local_target, candidates, idx,
                   llm_entities, calls>>

\* llm.py 254-258: step 2 ends
Step2End ==
    /\ pc = "s2_end"
    /\ IF Truthy(local_drug) /\ Truthy(local_target)
       THEN /\ result' = <<local_drug, local_target>>
            /\ pc' = "done"
       ELSE /\ result' = result
            /\ pc' = "step3"
    /\ UNCHANGED <<fe_vars, an_vars, user_query, chroma_rag, rag_candidates, final_drug, final_target,
                   local_drug, local_target, candidates, idx, llm_entities, calls>>

\* llm.py 277: the target suggestion is verified, or the pipeline finishes
S3TargetOrFinal(entities, target) ==
    IF ~Truthy(target) /\ Truthy(entities.target) THEN "s3_target" ELSE "final"

\* Step3Begin that calls the generative extractor only after stage 2 had
\* candidates to try
Step3Begin_OnlyWithCandidates ==
    /\ pc = "step3"
    /\ IF (~Truthy(local_drug) \/ ~Truthy(local_target)) /\ candidates # <<>>
       THEN /\ calls' = Append(calls, Call("_extract_with_llm", user_query, 3))
            /\ pc' = "s3_llm_wait"
       ELSE /\ calls' = calls
            /\ pc' = "final"
    /\ UNCHANGED <<fe_vars, an_vars, user_query, chroma_rag, rag_candidates, final_drug, final_target,
                   local_drug, local_target, candidates, idx, llm_entities, result>>

\* llm.py 261-264: step 3 begins, the generative extractor is called
Step3Begin ==
    /\ pc = "step3"
    /\ IF ~Truthy(local_drug) \/ ~Truthy(local_target)
       THEN /\ calls' = Append(calls, Call("_extract_with_llm", user_query, 3))
            /\ pc' = "s3_llm_wait"
       ELSE /\ calls' = calls
            /\ pc' = "final"
    /\ UNCHANGED <<fe_vars, an_vars, user_query, chroma_rag, rag_candidates, final_drug, final_target,
                   local_drug, local_target, candidates, idx, llm_entities, result>>

\* llm.py 264-268, 277, 285-286: _extract_with_llm returns
S3LLMReturn ==
    /\ pc = "s3_llm_wait"
    /\ \E response \in LLMResponses :
        LET entities == extract_with_llm(response)
        IN  /\ llm_entities' = entities
            /\ Returning("_extract_with_llm", None)
            /\ pc' = IF entities.nonempty
                     THEN IF ~Truthy(local_drug) /\ Truthy(entities.drug)
                          THEN "s3_drug"
                          ELSE S3TargetOrFinal(entities, local_target)
                     ELSE "final"
    /\ UNCHANGED <<fe_vars, an_vars, user_query, chroma_rag, rag_candidates, final_drug, final_target,
                   local_drug, local_target, candidates, idx, result>>

\* llm.py 268-270: the suggested drug goes to search_drug_id
S3DrugCall ==
    /\ pc = "s3_drug"
    /\ calls' = Append(calls, Call("search_drug_id", llm_entities.drug, 3))
    /\ pc' = "s3_drug_wait"
    /\ UNCHANGED <<fe_vars, an_vars, user_query, chroma_rag, rag_candidates, final_drug, final_target,
                   local_drug, local_target, candidates, idx, llm_entities, result>>

\* VerifiedName trusting the generator's suggestion once the resolver found
\* anything for it
VerifiedName_Trusting(suggestion, resolved) == suggestion

\* the name step 3 accepts for a side: the resolver's d_name / t_name
\* (llm.py 271-272, 280-281)
VerifiedName(suggestion, resolved) == resolved

\* llm.py 270-277: search_drug_id returns for the suggestion
S3DrugReturn ==
    /\ pc = "s3_drug_wait"
    /\ \E response \in SearchResponses("drug") :
        LET d_name == search_entity(response)[2]
        IN  /\ Returning("search_drug_id", d_name)
            /\ local_drug' = IF Truthy(d_name)
                             THEN VerifiedName(llm_entities.drug, d_name)
                             ELSE local_drug
    /\ pc' = S3TargetOrFinal(llm_entities, local_target)
    /\ UNCHANGED <<fe_vars, an_vars, user_query, chroma_rag, rag_candidates, final_drug, final_target,
                   local_target, candidates, idx, llm_entities, result>>

\* llm.py 277-279: the suggested target goes to search_target_id
S3TargetCall ==
    /\ pc = "s3_target"
    /\ calls' = Append(calls, Call("search_target_id", llm_entities.target, 3))
    /\ pc' = "s3_target_wait"
    /\ UNCHANGED <<fe_vars, an_vars, user_query, chroma_rag, rag_candidates, final_drug, final_target,
                   local_drug, local_target, candidates, idx, llm_entities, result>>

\* llm.py 279-284: search_target_id returns for the suggestion
S3TargetReturn ==
    /\ pc = "s3_target_wait"
    /\ \E response \in SearchResponses("target") :
        LET t_name == search_entity(response)[2]
        IN  /\ Returning("search_target_id", t_name)
            /\ local_target' = IF Truthy(t_name)
                               THEN VerifiedName(llm_entities.target, t_name)
                               ELSE local_target
    /\ pc' = "final"
    /\ UNCHANGED <<fe_vars, an_vars, user_query, chroma_rag, rag_candidates, final_drug, final_target,
                   local_drug, candidates, idx, llm_entities, result>>

\* llm.py 290-298: the final evaluation and the return
FinalReturn ==
    /\ pc = "final"
    /\ result' = <<local_drug, local_target>>
    /\ pc' = "done"
    /\ UNCHANGED <<fe_vars, an_vars, user_query, chroma_rag, rag_candidates, final_drug, final_target,
                   local_drug, local_target, candidates, idx, llm_entities, calls>>

ExtractNext ==
    \/ Step1Skipped
    \/ RagSearchBegin
    \/ RagQueryDrugs
    \/ RagQueryTargets
    \/ Step2Begin
    \/ S2DrugCall
    \/ S2DrugReturn
    \/ S2DrugExhausted
    \/ S2TargetSkip
    \/ S2TargetCall
    \/ S2TargetReturn
    \/ S2TargetExhausted
    \/ Step2End
    \/ Step3Begin
    \/ S3LLMReturn
    \/ S3DrugCall
    \/ S3DrugReturn
    \/ S3TargetCall
    \/ S3TargetReturn
    \/ FinalReturn

SpecExtract == ExtractInit /\ [][ExtractNext]_vars

\* ---------------------------------------------------------------------
\* search_candidates on its own (chroma_rag_service.py 126-156), called as
\* extract_entities calls it (llm.py 200, 205); the answers of the two
\* collections are kept in the call history
\* ---------------------------------------------------------------------
\* words of a query handed to search_candidates on its own
MaxRagQueryWords == 2

RagQueries ==
    {JoinWith(ws, <<" ">>) :
        ws \in UNION {[1..n -> QueryWords] : n \in 0..MaxRagQueryWords}}

CandidatesInit ==
    /\ FetchIdle
    /\ AnalysisIdle
    /\ pc = "search_candidates"
    /\ user_query \in RagQueries
    /\ chroma_rag = TRUE
    /\ rag_candidates = <<>>
    /\ final_drug = None
    /\ final_target = None
    /\ local_drug = None
    /\ local_target = None
    /\ candidates = <<>>
    /\ idx = 0
    /\ llm_entities = EmptyDict
    /\ calls = <<>>
    /\ result = NoResult

\* a query of a collection in the history, with the answer it got
Answered(fn, arg, res) == [fn |-> fn, arg |-> arg, res |-> res]

\* chroma_rag_service.py 130-140: the candidates; with none, the method
\* returns {"drug": None, "target": None} at once
CandidatesBegin ==
    /\ pc = "search_candidates"
    /\ \E c \in get_candidates(normalize_text(user_query)) :
        /\ rag_candidates' = c
        /\ pc' = IF c = <<>> THEN "candidates_returned" ELSE "query_collections"
    /\ UNCHANGED <<fe_vars, an_vars, user_query, chroma_rag, final_drug, final_target,
                   local_drug, local_target, candidates, idx, llm_entities, calls,
                   result>>

\* chroma_rag_service.py 142-156: both collections answer and the two loops
\* pick the results, or a query raises
CandidatesQuery ==
    /\ pc = "query_collections"
    /\ \/ /\ pc' = "raised"
          /\ UNCHANGED <<final_drug, final_target, calls>>
       \/ \E d_res \in QueryResults(DrugDocs, Len(rag_candidates)),
             t_res \in QueryResults(TargetDocs, Len(rag_candidates)) :
            /\ calls' = <<Answered("drugs_collection.query", rag_candidates, d_res),
                          Answered("targets_collection.query", rag_candidates, t_res)>>
            /\ final_drug' = RagFinalDrug(d_res)
            /\ final_target' = RagFinalTarget(t_res)
            /\ pc' = "candidates_returned"
    /\ UNCHANGED <<fe_vars, an_vars, user_query, chroma_rag, rag_candidates, local_drug,
                   local_target, candidates, idx, llm_entities, result>>

CandidatesNext ==
    \/ CandidatesBegin
    \/ CandidatesQuery

SpecCandidates == CandidatesInit /\ [][CandidatesNext]_vars

(***************************************************************************)
(* Evidence records and their merging (app/services/opentargets.py)        *)
(***************************************************************************)
\* JSON null where a dict / a list is expected
NoneDict == [none |-> TRUE]
NoneList == <<[none |-> TRUE]>>

SRC_ChEMBL == <<"C","h","E","M","B","L">>
SRC_FDA == <<"F","D","A">>
SRC_DailyMed == <<"D","a","i","l","y","M","e","d">>
SRC_ClinicalTrials == <<"C","l","i","n","i","c","a","l","T","r","i","a","l","s",".","g","o","v">>
SRC_DrugBank == <<"D","r","u","g","B","a","n","k">>
SRC_chembl == <<"c","h","e","m","b","l">>
SRC_europepmc == <<"e","u","r","o","p","e","p","m","c">>
MOA_inhibitor == <<"i","n","h","i","b","i","t","o","r">>
TYPE_small == <<"S","m","a","l","l"," ","m","o","l","e","c","u","l","e">>

Ref(source) == [source |-> source, urls |-> <<>>]

\* A clinical phase is one of the numbers 0, 0.5, 1, 2, 3, 4.  It is held as
\* the integer twice its value, so that comparing two phases is comparing
\* integers: the whole phase n is Phase(n) and phase 0.5 is EarlyPhase.
Phase(n) == 2 * n

EarlyPhase == 1

\* the grouping key of aggregate_sources
EvidenceKey(item) ==
    <<item.drug.id, item.target.id, item.phase, item.mechanismOfAction>>

\* item.get("references", []) or []
RefsOrEmpty(item) ==
    IF item.references = NoneList THEN <<>> ELSE item.references

\* MergeRefs without the membership test: every reference with a source kept
MergeRefs_KeepAll(references, refs, i) ==
    references \o SelectSeq(SubSeq(refs, i, Len(refs)), LAMBDA r : Truthy(r.source))

RECURSIVE MergeRefs_Prepend(_, _, _)
\* MergeRefs with insert(0, ref) for append(ref)
MergeRefs_Prepend(references, refs, i) ==
    IF i > Len(refs) THEN references
    ELSE LET source == refs[i].source
         IN  IF Truthy(source)
                /\ ~\E k \in 1..Len(references) : references[k].source = source
             THEN MergeRefs_Prepend(<<refs[i]>> \o references, refs, i + 1)
             ELSE MergeRefs_Prepend(references, refs, i + 1)

RECURSIVE MergeRefs(_, _, _)
\* the inner loop of aggregate_sources: refs[i..] merged into references
MergeRefs(references, refs, i) ==
    IF i > Len(refs) THEN references
    ELSE LET source == refs[i].source
         IN  IF Truthy(source)
                /\ ~\E k \in 1..Len(references) : references[k].source = source
             THEN MergeRefs(Append(references, refs[i]), refs, i + 1)
             ELSE MergeRefs(references, refs, i + 1)

\* the position of key in grouped (a dict in insertion order), 0 if absent
GroupIndex(grouped, key) ==
    IF \E k \in 1..Len(grouped) : EvidenceKey(grouped[k]) = key
    THEN CHOOSE k \in 1..Len(grouped) : EvidenceKey(grouped[k]) = key
    ELSE 0

RECURSIVE AggregateFrom(_, _, _)
\* the outer loop of aggregate_sources from item i
AggregateFrom(evidence_list, i, grouped) ==
    IF i > Len(evidence_list) THEN grouped
    ELSE LET item == evidence_list[i]
             k == GroupIndex(grouped, EvidenceKey(item))
             fresh == [drug |-> item.drug, target |-> item.target,
                       drugType |-> item.drugType, phase |-> item.phase,
                       mechanismOfAction |-> item.mechanismOfAction,
                       references |-> <<>>]
             withKey == IF k = 0 THEN Append(grouped, fresh) ELSE grouped
             at == IF k = 0 THEN Len(withKey) ELSE k
         IN  AggregateFrom(evidence_list, i + 1,
                [withKey EXCEPT ![at].references =
                    MergeRefs(withKey[at].references, RefsOrEmpty(item), 1)])

aggregate_sources(evidence_list) == AggregateFrom(evidence_list, 1, <<>>)

\* InferredRefs that skips the sources the item already carries
InferredRefs_SkipPresent(item) ==
    SelectSeq(<<Ref(SRC_ChEMBL)>>
              \o (IF item.phase = Phase(4) THEN <<Ref(SRC_FDA), Ref(SRC_DailyMed)>> ELSE <<>>)
              \o (IF item.phase \in {Phase(1), Phase(2), Phase(3), Phase(4)} THEN <<Ref(SRC_ClinicalTrials)>> ELSE <<>>)
              \o (IF Truthy(item.mechanismOfAction) THEN <<Ref(SRC_DrugBank)>> ELSE <<>>),
              LAMBDA r : \A j \in 1..Len(RefsOrEmpty(item)) :
                            RefsOrEmpty(item)[j].source # r.source)

\* the references extract_sources_from_evidence appends to one item
InferredRefs(item) ==
    <<Ref(SRC_ChEMBL)>>
    \o (IF item.phase = Phase(4) THEN <<Ref(SRC_FDA), Ref(SRC_DailyMed)>> ELSE <<>>)
    \o (IF item.phase \in {Phase(1), Phase(2), Phase(3), Phase(4)} THEN <<Ref(SRC_ClinicalTrials)>> ELSE <<>>)
    \o (IF Truthy(item.mechanismOfAction) THEN <<Ref(SRC_DrugBank)>> ELSE <<>>)

extract_sources_from_evidence(evidence_list) ==
    [i \in 1..Len(evidence_list) |->
        [evidence_list[i] EXCEPT !.references =
            RefsOrEmpty(evidence_list[i]) \o InferredRefs(evidence_list[i])]]

(***************************************************************************)
(* get_drug_target_interactions (app/services/opentargets.py), one call    *)
(***************************************************************************)
\* largest max_retries argument (the default is 3)
MaxRetriesArg == 3

\* rows of one knownDrugs response
MaxRows == 2

\* rows of one target-evidence response
MaxEvidenceRows == 2

KnownDrugsRow(tid, phase, moa, refs) ==
    [target |-> tid, drugType |-> TYPE_small, phase |-> phase,
     mechanismOfAction |-> moa, references |-> refs]

\* the rows a knownDrugs response can carry: two of one key with different
\* sources, one with null references and no mechanism, one of another target,
\* one whose target is null
RowPool ==
    {KnownDrugsRow([id |-> ID_ENSG_ABL1], Phase(4), MOA_inhibitor, <<Ref(SRC_ChEMBL)>>),
     KnownDrugsRow([id |-> ID_ENSG_ABL1], Phase(4), MOA_inhibitor, <<Ref(SRC_FDA)>>),
     KnownDrugsRow([id |-> ID_ENSG_ABL1], Phase(2), None, NoneList),
     KnownDrugsRow([id |-> ID_ENSG_EGFR], 0, None, <<>>),
     KnownDrugsRow(NoneDict, Phase(4), MOA_inhibitor, <<>>)}

RowLists == UNION {[1..n -> RowPool] : n \in 0..MaxRows}

\* What the POST of query (a) can do: raise httpx.TimeoutException
\* ("timeout"), raise another error ("error"), or answer with a status and a
\* body that has the expected shape (json_ok, rows) or not.
KnownDrugsResponses ==
    {[raised |-> r, status |-> 0, json_ok |-> FALSE, rows |-> <<>>] :
        r \in {"timeout", "error"}}
    \cup {[raised |-> "no", status |-> st, json_ok |-> FALSE, rows |-> <<>>] :
            st \in {200, 204, 500}}
    \cup {[raised |-> "no", status |-> st, json_ok |-> TRUE, rows |-> rows] :
            st \in {200, 204}, rows \in RowLists}

\* response.raise_for_status() raises for every status that is not 2xx
RaiseForStatusRaises(status) == status < 200 \/ status >= 300

RECURSIVE AppendMatches_AnyTarget(_, _, _, _, _)
\* AppendMatches without the comparison of the row's target with target_id
AppendMatches_AnyTarget(rows, i, tid, drug, evidence) ==
    IF i > Len(rows) THEN [evidence |-> evidence, raised |-> FALSE]
    ELSE IF rows[i].target = NoneDict THEN [evidence |-> evidence, raised |-> TRUE]
    ELSE AppendMatches_AnyTarget(rows, i + 1, tid, drug,
            Append(evidence,
                [drug |-> drug, target |-> rows[i].target,
                 drugType |-> rows[i].drugType, phase |-> rows[i].phase,
                 mechanismOfAction |-> rows[i].mechanismOfAction,
                 references |-> rows[i].references]))

RECURSIVE AppendMatches(_, _, _, _, _)
\* the loop over rows (opentargets.py 175-179): the evidence list once the
\* loop ends, and whether it ended by raising (a row whose target is null)
AppendMatches(rows, i, tid, drug, evidence) ==
    IF i > Len(rows) THEN [evidence |-> evidence, raised |-> FALSE]
    ELSE IF rows[i].target = NoneDict THEN [evidence |-> evidence, raised |-> TRUE]
    ELSE IF rows[i].target.id = tid
         THEN AppendMatches(rows, i + 1, tid, drug,
                Append(evidence,
                    [drug |-> drug, target |-> rows[i].target,
                     drugType |-> rows[i].drugType, phase |-> rows[i].phase,
                     mechanismOfAction |-> rows[i].mechanismOfAction,
                     references |-> rows[i].references]))
    ELSE AppendMatches(rows, i + 1, tid, drug, evidence)

\* How one attempt of query (a) ends: "timeout" (except
\* httpx.TimeoutException); "error" (the POST raised something else),
\* "http_error" (raise_for_status raised) or "bad_body" (the body is not the
\* expected JSON), all three caught by except Exception; "ok" (the rows were
\* read to the end).
AttemptOutcome(response) ==
    IF response.raised = "timeout" THEN "timeout"
    ELSE IF response.raised = "error" THEN "error"
    ELSE IF response.status # 200 /\ RaiseForStatusRaises(response.status)
    THEN "http_error"
    ELSE IF ~response.json_ok THEN "bad_body"
    ELSE IF AppendMatches(response.rows, 1, None, NoneDict, <<>>).raised
    THEN "bad_body"
    ELSE "ok"

EvidenceRow(drug, datasourceId) == [drug |-> drug, datasourceId |-> datasourceId]

\* the rows a target-evidence response can carry
EvidencePool ==
    {EvidenceRow([id |-> ID_CHEMBL941], SRC_chembl),
     EvidenceRow([id |-> ID_CHEMBL941], SRC_europepmc),
     EvidenceRow([id |-> ID_CHEMBL941], <<>>),
     EvidenceRow([id |-> ID_CHEMBL1421], SRC_chembl),
     EvidenceRow(NoneDict, SRC_chembl)}

EvidenceLists == UNION {[1..n -> EvidencePool] : n \in 0..MaxEvidenceRows}

\* What the POST of query (b) can do: raise, or answer with a status and a body
TargetEvidenceResponses ==
    {[raised |-> TRUE, status |-> 0, json_ok |-> FALSE, rows |-> <<>>]}
    \cup {[raised |-> FALSE, status |-> st, json_ok |-> FALSE, rows |-> <<>>] :
            st \in {200, 500}}
    \cup {[raised |-> FALSE, status |-> 200, json_ok |-> TRUE, rows |-> rows] :
            rows \in EvidenceLists}

\* additional_sources (opentargets.py 238-249): the non-empty datasourceId of
\* the rows of this drug
AdditionalSources(evidence_rows, did) ==
    {evidence_rows[i].datasourceId : i \in
        {k \in 1..Len(evidence_rows) :
            /\ evidence_rows[k].drug.id = did
            /\ Truthy(evidence_rows[k].datasourceId)}}

\* EnrichFirst adding each source as an evidence row of its own
EnrichFirst_AsNewRows(evidence, order) ==
    evidence \o [i \in 1..Len(order) |->
        [evidence[1] EXCEPT !.phase = 0, !.references = <<Ref(upper(order[i]))>>]]

\* all_evidence after `for source in additional_sources` appended the sources
\* in the order `order` (opentargets.py 252-256)
EnrichFirst(evidence, order) ==
    [evidence EXCEPT ![1].references =
        @ \o [i \in 1..Len(order) |-> Ref(upper(order[i]))]]

\* the orders in which a set can be iterated
Orders(S) ==
    {p \in [1..Cardinality(S) -> S] :
        \A i, j \in 1..Cardinality(S) : i # j => p[i] # p[j]}

\* The values all_evidence can have after query (b) answered `response`
\* (opentargets.py 233-261); every exception inside the try leaves it as it
\* was when raised.
AfterTargetEvidence(evidence, response, did) ==
    IF response.raised \/ response.status # 200 \/ ~response.json_ok
    THEN {evidence}
    ELSE IF \E i \in 1..Len(response.rows) : response.rows[i].drug = NoneDict
    THEN {evidence}                      \* AttributeError in the comprehension
    ELSE IF ~\E i \in 1..Len(response.rows) : response.rows[i].drug.id = did
    THEN {evidence}                      \* drug_specific is empty
    ELSE IF evidence = <<>>
    THEN {evidence}
    ELSE IF AdditionalSources(response.rows, did) = {}
    THEN {evidence}
    ELSE IF evidence[1].references = NoneList
    THEN {evidence}                      \* None.append raises, caught
    ELSE {EnrichFirst(evidence, order) :
            order \in Orders(AdditionalSources(response.rows, did))}

\* an entry of f_log: a request sent ("search", "query_a", "query_b") or a
\* sleep; n is the attempt index of a query (a) request, the seconds of a
\* sleep; outcome is how a query (a) attempt ended ("" while in flight)
LogEntry(op, n) == [op |-> op, n |-> n, outcome |-> ""]

RECURSIVE Pow2(_)
\* 2 ** attempt
Pow2(n) == IF n = 0 THEN 1 ELSE 2 * Pow2(n - 1)

FetchInit ==
    /\ pc = "idle"
    /\ user_query = <<>>
    /\ chroma_rag = FALSE
    /\ rag_candidates = <<>>
    /\ final_drug = None
    /\ final_target = None
    /\ local_drug = None
    /\ local_target = None
    /\ candidates = <<>>
    /\ idx = 0
    /\ llm_entities = EmptyDict
    /\ calls = <<>>
    /\ result = NoResult
    /\ AnalysisIdle
    /\ f_pc = "resolve"
    /\ target_id \in {ID_ENSG_ABL1, ID_ENSG_EGFR}
    /\ max_retries \in 0..MaxRetriesArg
    /\ attempt = 0
    /\ se_response = NoResponse
    /\ drug_id = None
    /\ canonical_drug_name = None
    /\ all_evidence = <<>>
    /\ evidence_a = <<>>
    /\ f_log = <<>>
    /\ f_result = <<>>

\* opentargets.py 123, 92-95: search_drug_id posts the search
FResolveCall ==
    /\ f_pc = "resolve"
    /\ f_log' = Append(f_log, LogEntry("search", 0))
    /\ f_pc' = "resolve_wait"
    /\ UNCHANGED <<ex_vars, an_vars, target_id, max_retries, attempt, se_response, drug_id,
                   canonical_drug_name, all_evidence, evidence_a, f_result>>

\* AfterResolve without the test `if not drug_id`
AfterResolve_Always(id) == "query_a"

\* opentargets.py 125-131: without a drug id the function returns []
AfterResolve(id) == IF ~Truthy(id) THEN "done" ELSE "query_a"

\* opentargets.py 95-103, 123-131: search_entity returns
FResolveReturn ==
    /\ f_pc = "resolve_wait"
    /\ \E response \in SearchResponses("drug") :
        LET found == search_entity(response)
        IN  /\ se_response' = response
            /\ IF found = Raised
               THEN /\ f_pc' = "raised"
                    /\ UNCHANGED <<drug_id, canonical_drug_name>>
               ELSE /\ drug_id' = found[1]
                    /\ canonical_drug_name' = found[2]
                    /\ f_pc' = AfterResolve(found[1])
    /\ UNCHANGED <<ex_vars, an_vars, target_id, max_retries, attempt, all_evidence,
                   evidence_a, f_log, f_result>>

\* opentargets.py 162-168: attempt number `attempt` of query (a) is sent
FQueryACall ==
    /\ f_pc = "query_a"
    /\ attempt < max_retries
    /\ f_log' = Append(f_log, LogEntry("query_a", attempt))
    /\ f_pc' = "query_a_wait"
    /\ UNCHANGED <<ex_vars, an_vars, target_id, max_retries, attempt, se_response, drug_id,
                   canonical_drug_name, all_evidence, evidence_a, f_result>>

\* RetryAfter going on after every attempt that did not succeed
RetryAfter_AnyFailure(outcome) == outcome # "ok"

\* whether the loop of query (a) goes on after an attempt that ended `outcome`
RetryAfter(outcome) == outcome = "timeout"

\* BackoffAfterTimeout sleeping after the last permitted attempt too
BackoffAfterTimeout_Always(n, retries) ==
    <<[op |-> "sleep", n |-> Pow2(n), outcome |-> ""]>>

\* opentargets.py 184-187: asyncio.sleep(2 ** attempt) unless it was the last
BackoffAfterTimeout(n, retries) ==
    IF n < retries - 1 THEN <<[op |-> "sleep", n |-> Pow2(n), outcome |-> ""]>>
    ELSE <<>>

\* opentargets.py 165-190: the attempt ends: rows appended and break, a
\* timeout (sleep, next attempt), any other error (break)
FQueryAReturn ==
    /\ f_pc = "query_a_wait"
    /\ \E response \in KnownDrugsResponses :
        LET outcome == AttemptOutcome(response)
            processed == AppendMatches(response.rows, 1, target_id,
                            [name |-> canonical_drug_name, id |-> drug_id],
                            all_evidence)
            ended == [f_log EXCEPT ![Len(f_log)].outcome = outcome]
        IN  /\ all_evidence' =
                IF response.raised = "no" /\ response.json_ok
                   /\ ~(response.status # 200 /\ RaiseForStatusRaises(response.status))
                THEN processed.evidence
                ELSE all_evidence
            /\ IF RetryAfter(outcome)
               THEN /\ f_log' = ended \o BackoffAfterTimeout(attempt, max_retries)
                    /\ attempt' = attempt + 1
                    /\ f_pc' = "query_a"
               ELSE /\ f_log' = ended
                    /\ attempt' = attempt
                    /\ f_pc' = "query_b"
    /\ evidence_a' = all_evidence'
    /\ UNCHANGED <<ex_vars, an_vars, target_id, max_retries, se_response, drug_id,
                   canonical_drug_name, f_result>>

\* opentargets.py 162: the loop ran out of attempts
FQueryAExhausted ==
    /\ f_pc = "query_a"
    /\ attempt >= max_retries
    /\ f_pc' = "query_b"
    /\ evidence_a' = all_evidence
    /\ UNCHANGED <<ex_vars, an_vars, target_id, max_retries, attempt, se_response, drug_id,
                   canonical_drug_name, all_evidence, f_log, f_result>>

\* opentargets.py 225-231: query (b) is sent
FQueryBCall ==
    /\ f_pc = "query_b"
    /\ f_log' = Append(f_log, LogEntry("query_b", 0))
    /\ f_pc' = "query_b_wait"
    /\ UNCHANGED <<ex_vars, an_vars, target_id, max_retries, attempt, se_response, drug_id,
                   canonical_drug_name, all_evidence, evidence_a, f_result>>

\* opentargets.py 233-261: query (b) ends
FQueryBReturn ==
    /\ f_pc = "query_b_wait"
    /\ \E response \in TargetEvidenceResponses :
        all_evidence' \in AfterTargetEvidence(all_evidence, response, drug_id)
    /\ f_pc' = "aggregate"
    /\ UNCHANGED <<ex_vars, an_vars, target_id, max_retries, attempt, se_response, drug_id,
                   canonical_drug_name, evidence_a, f_log, f_result>>

\* the list get_drug_target_interactions returns for all_evidence
\* (opentargets.py 266-286)
FinalEvidence(evidence) ==
    IF evidence # <<>>
    THEN extract_sources_from_evidence(aggregate_sources(evidence))
    ELSE <<>>

\* opentargets.py 266-286: aggregate and return
FAggregateReturn ==
    /\ f_pc = "aggregate"
    /\ f_result' = FinalEvidence(all_evidence)
    /\ f_pc' = "done"
    /\ UNCHANGED <<ex_vars, an_vars, target_id, max_retries, attempt, se_response, drug_id,
                   canonical_drug_name, all_evidence, evidence_a, f_log>>

FetchNext ==
    \/ FResolveCall
    \/ FResolveReturn
    \/ FQueryACall
    \/ FQueryAReturn
    \/ FQueryAExhausted
    \/ FQueryBCall
    \/ FQueryBReturn
    \/ FAggregateReturn

SpecFetch == FetchInit /\ [][FetchNext]_vars

(***************************************************************************)
(* calculate_confidence (app/utils/scoring.py)                             *)
(*                                                                         *)
(* Numbers: ets, ecs and cs are in hundredths (0.85 is 85); eqs and        *)
(* weighted_score, which the code rounds to three decimals, are in         *)
(* thousandths; score, rounded to one decimal, is in tenths (72.5 is 725). *)
(* The unrounded values are kept as fractions of integers.  Where the      *)
(* exact value lies halfway between two roundings the float the code holds *)
(* may round either way: both are possible results.  The three characters  *)
(* of the warning sign and of the separator in the source file are written *)
(* "<a-circumflex>", "<s-caron>", "<nbsp>", "<euro>" and "<cent>".         *)
(***************************************************************************)
\* m.get(key)
Get(m, key) == IF key \in DOMAIN m THEN m[key] ELSE None

\* m.get("phase", 0) or 0
PhaseOf(m) == IF "phase" \in DOMAIN m THEN m.phase ELSE 0

\* m.get("references", []) or []
RefsOf(m) ==
    IF "references" \in DOMAIN m THEN RefsOrEmpty(m) ELSE <<>>

RECURSIVE MaxPhaseFrom(_, _, _, _)
\* the loop of scoring.py 28-32 from item i: <<max_phase, mechanism_of_action>>
MaxPhaseFrom(ms, i, max_phase, mechanism_of_action) ==
    IF i > Len(ms) THEN <<max_phase, mechanism_of_action>>
    ELSE IF PhaseOf(ms[i]) > max_phase
         THEN MaxPhaseFrom(ms, i + 1, PhaseOf(ms[i]), Get(ms[i], "mechanismOfAction"))
         ELSE MaxPhaseFrom(ms, i + 1, max_phase, mechanism_of_action)

PreclinicalSources ==
    {<<"a","n","i","m","a","l">>,
     <<"p","r","e","c","l","i","n","i","c","a","l">>,
     <<"i","n","_","v","i","v","o">>}

\* str(m.get("source", "")).lower() in ["animal", "preclinical", "in_vivo"]
\* for some m
HasPreclinical(ms, tags) ==
    \E i \in 1..Len(ms) :
        /\ Get(ms[i], "source") # None
        /\ lower(Get(ms[i], "source")) \in tags

\* ETSOfPhase with the values of phase 2 and phase 3 exchanged
ETSOfPhase_Exchanged(max_phase, has_preclinical) ==
    IF max_phase = Phase(4) THEN 100
    ELSE IF max_phase = Phase(3) THEN 65
    ELSE IF max_phase = Phase(2) THEN 85
    ELSE IF max_phase = Phase(1) THEN 45
    ELSE IF max_phase = EarlyPhase THEN 35
    ELSE IF has_preclinical THEN 25 ELSE 15

\* the non-linear phase scoring (scoring.py 35-51), in hundredths
ETSOfPhase(max_phase, has_preclinical) ==
    IF max_phase = Phase(4) THEN 100
    ELSE IF max_phase = Phase(3) THEN 85
    ELSE IF max_phase = Phase(2) THEN 65
    ELSE IF max_phase = Phase(1) THEN 45
    ELSE IF max_phase = EarlyPhase THEN 35
    ELSE IF has_preclinical THEN 25 ELSE 15

\* m.get("datasourceId") or m.get("source") or m.get("drugType")
EvidenceSource(m) ==
    IF Truthy(Get(m, "datasourceId")) THEN Get(m, "datasourceId")
    ELSE IF Truthy(Get(m, "source")) THEN Get(m, "source")
    ELSE IF Truthy(Get(m, "drugType")) THEN Get(m, "drugType")
    ELSE None

\* the records that carry an evidence-level source
TaggedItems(ms) == {i \in 1..Len(ms) : Truthy(EvidenceSource(ms[i]))}

\* every reference of every record, as <<record, position>>
AllRefs(ms) ==
    UNION {{<<i, j>> : j \in 1..Len(RefsOf(ms[i]))} : i \in 1..Len(ms)}

\* the references whose source is not empty (`if source:`)
SourcedRefs(ms) ==
    {ij \in AllRefs(ms) : Truthy(RefsOf(ms[ij[1]])[ij[2]].source)}

\* UniqueSources with every source lower-cased before it is added
UniqueSources_Lowered(ms) ==
    {lower(EvidenceSource(ms[i])) : i \in TaggedItems(ms)}
    \cup {lower(RefsOf(ms[ij[1]])[ij[2]].source) : ij \in SourcedRefs(ms)}

\* unique_sources (scoring.py 56-91): str(evidence_source) and r["source"],
\* added as they are
UniqueSources(ms) ==
    {EvidenceSource(ms[i]) : i \in TaggedItems(ms)}
    \cup {RefsOf(ms[ij[1]])[ij[2]].source : ij \in SourcedRefs(ms)}

ExpertTagsEvidence ==
    {<<"c","h","e","m","b","l">>,
     <<"f","d","a">>,
     <<"d","r","u","g","b","a","n","k">>,
     <<"t","t","d">>}

ExpertTagsReference ==
    {<<"c","h","e","m","b","l">>,
     <<"f","d","a">>,
     <<"d","r","u","g","b","a","n","k">>,
     <<"t","t","d">>,
     <<"d","a","i","l","y","m","e","d">>}

TextMiningTags ==
    {<<"e","u","r","o","p","e","p","m","c">>,
     <<"p","u","b","m","e","d">>,
     <<"m","i","n","i","n","g">>,
     <<"l","i","t","e","r","a","t","u","r","e">>}

ContainsAny(s, tags) == \E x \in tags : Contains(s, x)

\* the three-way categorisation of scoring.py 68-73 / 84-89
SourceType(src_lower, expert_tags) ==
    IF ContainsAny(src_lower, expert_tags) THEN "expert"
    ELSE IF ContainsAny(src_lower, TextMiningTags) THEN "text_mining"
    ELSE "database"

\* source_types: how many evidence-level and reference-level sources fell in
\* a category
SourceTypeCount(ms, type) ==
    Cardinality({i \in TaggedItems(ms) :
        SourceType(lower(EvidenceSource(ms[i])), ExpertTagsEvidence) = type})
    + Cardinality({ij \in SourcedRefs(ms) :
        SourceType(lower(RefsOf(ms[ij[1]])[ij[2]].source), ExpertTagsReference) = type})

SourceTypes(ms) ==
    [expert |-> SourceTypeCount(ms, "expert"),
     database |-> SourceTypeCount(ms, "database"),
     text_mining |-> SourceTypeCount(ms, "text_mining")]

\* ECSOfCount without the branch for zero sources
ECSOfCount_ZeroAsOne(source_count) ==
    IF source_count >= 10 THEN 100
    ELSE IF source_count >= 7 THEN 95
    ELSE IF source_count >= 5 THEN 85
    ELSE IF source_count >= 3 THEN 70
    ELSE IF source_count = 2 THEN 50
    ELSE 30

\* the source-count step function (scoring.py 94-108), in hundredths
ECSOfCount(source_count) ==
    IF source_count = 0 THEN 10
    ELSE IF source_count >= 10 THEN 100
    ELSE IF source_count >= 7 THEN 95
    ELSE IF source_count >= 5 THEN 85
    ELSE IF source_count >= 3 THEN 70
    ELSE IF source_count = 2 THEN 50
    ELSE 30

QualityExpertTags ==
    {<<"c","h","e","m","b","l">>,
     <<"f","d","a">>,
     <<"e","x","p","e","r","t">>,
     <<"c","u","r","a","t","e","d","_","m","a","n","u","a","l">>,
     <<"d","r","u","g","b","a","n","k">>,
     <<"d","a","i","l","y","m","e","d">>}

QualityMiningTags ==
    {<<"e","u","r","o","p","e","p","m","c">>,
     <<"p","u","b","m","e","d">>,
     <<"m","i","n","i","n","g">>,
     <<"a","u","t","o","m","a","t","e","d">>,
     <<"l","i","t","e","r","a","t","u","r","e">>}

\* the quality of one source tag (scoring.py 121-126 / 132-137), in quarters:
\* 1.0 is 4, 0.75 is 3, 0.5 is 2
QualityOf(src_lower) ==
    IF ContainsAny(src_lower, QualityExpertTags) THEN 4
    ELSE IF ContainsAny(src_lower, QualityMiningTags) THEN 2
    ELSE 3

\* str(r.get("source", "")).lower()
RefSourceLower(ref) == IF ref.source = None THEN <<"n","o","n","e">> ELSE lower(ref.source)

\* how many entries of quality_scores have the quality q: one for every
\* evidence-level source, one for every reference (sourced or not)
QualityCount(ms, q) ==
    Cardinality({i \in TaggedItems(ms) : QualityOf(lower(EvidenceSource(ms[i]))) = q})
    + Cardinality({ij \in AllRefs(ms) :
        QualityOf(RefSourceLower(RefsOf(ms[ij[1]])[ij[2]])) = q})

\* the text-mining-only penalty applies (scoring.py 149)
TextMiningOnly(source_types) ==
    source_types.text_mining > 0 /\ source_types.expert = 0 /\ source_types.database = 0

\* eqs (scoring.py 139-150) as the fraction num / den: 0.6 * max + 0.4 * mean
\* of quality_scores, 0.5 without any, times 0.7 under the penalty
EQSOf(ms) ==
    LET n4 == QualityCount(ms, 4)
        n3 == QualityCount(ms, 3)
        n2 == QualityCount(ms, 2)
        len == n4 + n3 + n2
        sum == 4 * n4 + 3 * n3 + 2 * n2
        max_quality == IF n4 > 0 THEN 4 ELSE IF n3 > 0 THEN 3 ELSE 2
        factor == IF TextMiningOnly(SourceTypes(ms)) THEN 7 ELSE 10
    IN  IF len = 0 THEN [num |-> 100, den |-> 200]
        ELSE [num |-> factor * (3 * max_quality * len + 2 * sum), den |-> 200 * len]

\* unique_mechanisms (scoring.py 155-161)
UniqueMechanisms(ms) ==
    {strip(lower(Get(ms[i], "mechanismOfAction"))) :
        i \in {k \in 1..Len(ms) : Truthy(Get(ms[k], "mechanismOfAction"))}}

\* the consistency step function (scoring.py 164-171), in hundredths
CSOfCount(n) ==
    IF n <= 1 THEN 100 ELSE IF n = 2 THEN 80 ELSE IF n = 3 THEN 55 ELSE 30

\* weighted_score (scoring.py 177-182) as a fraction, for ets, ecs, cs in
\* hundredths and eqs a fraction whose denominator is a multiple of 200:
\* (0.40 ets + 0.25 ecs + 0.15 cs) / 100 + 0.20 eqs, reduced by 200
WeightedScore(ets, ecs, eqs, cs) ==
    [num |-> (40 * ets + 25 * ecs + 15 * cs) * (eqs.den \div 200) + 10 * eqs.num,
     den |-> 50 * eqs.den]

\* DepthBonus as the increment alone: nothing below five items
DepthBonus_Increment(evidence_count) ==
    IF evidence_count >= 20 THEN 5
    ELSE IF evidence_count >= 10 THEN 3
    ELSE IF evidence_count >= 5 THEN 1
    ELSE 0

\* the evidence depth bonus (scoring.py 188-194), in percent
DepthBonus(evidence_count) ==
    IF evidence_count >= 20 THEN 105
    ELSE IF evidence_count >= 10 THEN 103
    ELSE IF evidence_count >= 5 THEN 101
    ELSE 100

\* final_score (scoring.py 185-197) as a fraction: weighted_score * 100 times
\* the bonus, capped at 100
FinalScore(weighted, evidence_count) ==
    IF weighted.num * DepthBonus(evidence_count) > 100 * weighted.den
    THEN [num |-> 100, den |-> 1]
    ELSE [num |-> weighted.num * DepthBonus(evidence_count), den |-> weighted.den]

\* round(num / den * scale): the nearest integers to num * scale / den
RoundTo(frac, scale) ==
    LET q == (frac.num * scale) \div frac.den
        r == (frac.num * scale) % frac.den
    IN  IF 2 * r < frac.den THEN {q}
        ELSE IF 2 * r > frac.den THEN {q + 1}
        ELSE {q, q + 1}

Digits == <<"0","1","2","3","4","5","6","7","8","9">>

RECURSIVE IntToStr(_)
\* str(n) of an f-string
IntToStr(n) ==
    IF n < 10 THEN <<Digits[n + 1]>>
    ELSE IntToStr(n \div 10) \o <<Digits[(n % 10) + 1]>>

WarningSign == <<"<a-circumflex>", "<s-caron>", "<nbsp>">>

Separator == <<" ", "<a-circumflex>", "<euro>", "<cent>", " ">>

ReasoningPreclinicalSources ==
    {<<"a","n","i","m","a","l">>,
     <<"p","r","e","c","l","i","n","i","c","a","l">>}

\* reasoning_parts (scoring.py 202-243)
ReasoningParts(ms, max_phase, mechanism_of_action, source_count, source_types, n_mechanisms) ==
    <<IF max_phase = Phase(4) THEN <<"F","D","A"," ","a","p","p","r","o","v","e","d"," ","w","i","t","h"," ","s","t","r","o","n","g"," ","c","l","i","n","i","c","a","l"," ","e","v","i","d","e","n","c","e">>
      ELSE IF max_phase = Phase(3) THEN <<"L","a","t","e","-","s","t","a","g","e"," ","c","l","i","n","i","c","a","l"," ","t","r","i","a","l","s"," ","(","P","h","a","s","e"," ","3",")">>
      ELSE IF max_phase = Phase(2) THEN <<"M","i","d","-","s","t","a","g","e"," ","c","l","i","n","i","c","a","l"," ","t","r","i","a","l","s"," ","(","P","h","a","s","e"," ","2",")">>
      ELSE IF max_phase = Phase(1) THEN <<"E","a","r","l","y","-","s","t","a","g","e"," ","c","l","i","n","i","c","a","l"," ","t","r","i","a","l","s"," ","(","P","h","a","s","e"," ","1",")">>
      ELSE IF HasPreclinical(ms, ReasoningPreclinicalSources)
      THEN <<"P","r","e","c","l","i","n","i","c","a","l"," ","e","v","i","d","e","n","c","e"," ","o","n","l","y">>
      ELSE <<"L","i","t","e","r","a","t","u","r","e","-","b","a","s","e","d"," ","e","v","i","d","e","n","c","e"," ","o","n","l","y">>>>
    \o <<IF source_count >= 7
         THEN <<"h","i","g","h","l","y"," ","r","e","p","l","i","c","a","t","e","d"," ","(">> \o IntToStr(source_count) \o <<" ","i","n","d","e","p","e","n","d","e","n","t"," ","s","o","u","r","c","e","s",")">>
         ELSE IF source_count >= 4
         THEN <<"w","e","l","l","-","s","u","p","p","o","r","t","e","d"," ","(">> \o IntToStr(source_count) \o <<" ","s","o","u","r","c","e","s",")">>
         ELSE IF source_count = 1 THEN WarningSign \o <<" ","s","i","n","g","l","e"," ","s","o","u","r","c","e">>
         ELSE IF source_count = 0 THEN WarningSign \o <<" ","n","o"," ","s","o","u","r","c","e"," ","i","n","f","o","r","m","a","t","i","o","n">>
         ELSE IntToStr(source_count) \o <<" ","s","o","u","r","c","e","s">>>>
    \o (IF source_types.expert > 0 THEN <<<<"e","x","p","e","r","t","-","c","u","r","a","t","e","d">>>>
        ELSE IF source_types.text_mining
                    = source_types.expert + source_types.database + source_types.text_mining
                /\ source_types.text_mining > 0
        THEN <<WarningSign \o <<" ","t","e","x","t","-","m","i","n","i","n","g"," ","o","n","l","y">>>>
        ELSE <<>>)
    \o (IF n_mechanisms > 2
        THEN <<WarningSign \o <<" ">> \o IntToStr(n_mechanisms) \o <<" ","d","i","f","f","e","r","e","n","t"," ","m","e","c","h","a","n","i","s","m","s"," ","r","e","p","o","r","t","e","d">>>>
        ELSE <<>>)
    \o (IF Truthy(mechanism_of_action) /\ n_mechanisms = 1
        THEN <<<<"(","v","i","a"," ">> \o mechanism_of_action \o <<")">> >>
        ELSE <<>>)

NoEvidenceFound == <<"N","o"," ","e","v","i","d","e","n","c","e"," ","f","o","u","n","d">>

\* the result of scoring.py 11-20
ZeroResult ==
    [score |-> 0, max_phase |-> 0, evidence_count |-> 0, source_count |-> 0,
     evidence_types |-> {}, reasoning |-> NoEvidenceFound, factors |-> EmptyMapping]

\* The results calculate_confidence can return for matches (one, or two
\* where a rounding is a tie).  evidence_types, a sorted list of distinct
\* strings, is given as their set.
calculate_confidence(ms) ==
    IF ms = <<>> THEN {ZeroResult}
    ELSE LET top == MaxPhaseFrom(ms, 1, 0, None)
             ets == ETSOfPhase(top[1], HasPreclinical(ms, PreclinicalSources))
             unique_sources == UniqueSources(ms)
             source_types == SourceTypes(ms)
             source_count == Cardinality(unique_sources)
             ecs == ECSOfCount(source_count)
             eqs == EQSOf(ms)
             n_mechanisms == Cardinality(UniqueMechanisms(ms))
             cs == CSOfCount(n_mechanisms)
             weighted_score == WeightedScore(ets, ecs, eqs, cs)
             evidence_count == Len(ms)
             final_score == FinalScore(weighted_score, evidence_count)
         IN  {[score |-> s, max_phase |-> top[1], evidence_count |-> evidence_count,
               source_count |-> source_count, mechanism |-> top[2],
               evidence_types |-> unique_sources,
               reasoning |-> JoinWith(ReasoningParts(ms, top[1], top[2], source_count,
                                                     source_types, n_mechanisms),
                                      Separator),
               factors |-> [ets |-> ets, ecs |-> ecs, eqs |-> e, cs |-> cs,
                            weighted_score |-> w,
                            source_breakdown |-> source_types]] :
              s \in RoundTo(final_score, 10), e \in RoundTo(eqs, 1000),
              w \in RoundTo(weighted_score, 1000)}

(***************************************************************************)
(* perform_analysis (app/main.py) up to the confidence, and direct calls   *)
(* of calculate_confidence                                                 *)
(***************************************************************************)
\* rows of all_evidence before the aggregation
MaxRawRows == 5

\* records of a list handed to calculate_confidence directly
MaxMatches == 5

MOA_Inhibitor_spaced == <<" ","I","n","h","i","b","i","t","o","r"," ">>
SRC_CHEMBL == <<"C","H","E","M","B","L">>
SRC_animal == <<"A","n","i","m","a","l">>
URL_1 == <<"u","1">>

RawRow(phase, moa, drug_type, refs) ==
    [drug |-> [name |-> NAME_IMATINIB, id |-> ID_CHEMBL941],
     target |-> [id |-> ID_ENSG_ABL1],
     drugType |-> drug_type, phase |-> phase, mechanismOfAction |-> moa,
     references |-> refs]

\* The rows all_evidence can hold: a phase-4 row with one ChEMBL reference
\* and neither mechanism nor drug type; a row of the same key whose ChEMBL
\* reference carries a URL, with FDA and a reference without source; a
\* phase-2 row with a mechanism, FDA and the upper-cased source query (b)
\* adds; a phase-0 row with null references.
RawPool ==
    {RawRow(Phase(4), None, None, <<Ref(SRC_ChEMBL)>>),
     RawRow(Phase(4), None, None,
            <<[source |-> SRC_ChEMBL, urls |-> <<URL_1>>], Ref(SRC_FDA), Ref(<<>>)>>),
     RawRow(Phase(2), MOA_inhibitor, TYPE_small, <<Ref(SRC_FDA), Ref(SRC_CHEMBL)>>),
     RawRow(0, None, TYPE_small, NoneList)}

RawLists == UNION {[1..n -> RawPool] : n \in 0..MaxRawRows}

Match(datasourceId, source, drug_type, phase, moa, refs) ==
    [datasourceId |-> datasourceId, source |-> source, drugType |-> drug_type,
     phase |-> phase, mechanismOfAction |-> moa, references |-> refs]

\* The records a direct caller can hand over: one without any source tag,
\* phase or mechanism; a text-mining record in phase 1; a preclinical record
\* with two spellings of one source; a phase-3 record with a mechanism and
\* references without source.
MatchPool ==
    {Match(None, None, None, 0, None, <<>>),
     Match(SRC_europepmc, None, TYPE_small, Phase(1), MOA_Inhibitor_spaced, <<>>),
     Match(<<>>, SRC_animal, TYPE_small, 0, None, <<Ref(SRC_ChEMBL), Ref(SRC_CHEMBL)>>),
     Match(None, None, TYPE_small, Phase(3), MOA_inhibitor, <<Ref(None), Ref(<<>>)>>)}

MatchLists == UNION {[1..n -> MatchPool] : n \in 0..MaxMatches}

\* records of a list of tagged records handed to calculate_confidence
MaxTagged == 2

SRC_in_vivo == <<"i","n","_","v","i","v","o">>
SRC_ttd == <<"t","t","d">>
SRC_automated == <<"a","u","t","o","m","a","t","e","d">>
SRC_pubmed == <<"p","u","b","m","e","d">>
SRC_literature == <<"l","i","t","e","r","a","t","u","r","e">>

\* Further records a direct caller can hand over, one for every tag list and
\* phase branch of the scorer that MatchPool does not reach: a phase-0 record
\* tagged "in_vivo"; an early-phase (0.5) record without tags; a phase-4
\* record of the datasource "ttd"; a phase-2 record of the datasource
\* "automated"; an untagged record whose only reference has an empty source;
\* a phase-3 record that brings seven sources; a phase-1 record with three
\* text-mining sources.
TagPool ==
    {Match(None, SRC_in_vivo, None, 0, None, <<>>),
     Match(None, None, None, EarlyPhase, None, <<>>),
     Match(SRC_ttd, None, None, Phase(4), None, <<>>),
     Match(SRC_automated, None, None, Phase(2), None, <<>>),
     Match(None, None, None, 0, None, <<Ref(<<>>)>>),
     Match(SRC_chembl, None, TYPE_small, Phase(3), MOA_inhibitor,
           <<Ref(SRC_ChEMBL), Ref(SRC_CHEMBL), Ref(SRC_FDA), Ref(SRC_DailyMed),
             Ref(SRC_ClinicalTrials), Ref(SRC_DrugBank)>>),
     Match(SRC_europepmc, None, None, Phase(1), None,
           <<Ref(SRC_pubmed), Ref(SRC_literature)>>)}

TaggedLists == UNION {[1..n -> TagPool] : n \in 1..MaxTagged}

AnalysisInit ==
    /\ pc = "idle"
    /\ user_query = <<>>
    /\ chroma_rag = FALSE
    /\ rag_candidates = <<>>
    /\ final_drug = None
    /\ final_target = None
    /\ local_drug = None
    /\ local_target = None
    /\ candidates = <<>>
    /\ idx = 0
    /\ llm_entities = EmptyDict
    /\ calls = <<>>
    /\ result = NoResult
    /\ FetchIdle
    /\ a_pc = "start"
    /\ caller \in {"perform_analysis", "direct", "analyze"}
    /\ raw_evidence = <<>>
    /\ matches = <<>>
    /\ confidence_info = EmptyMapping
    /\ structured_evidence = EmptyMapping
    /\ explanation = None
    /\ llm_prompts = <<>>

\* main.py 112-122 with opentargets.py 266-286: without a target id the
\* evidence is []; otherwise it is what get_drug_target_interactions returns
\* for the rows it collected
FetchEvidence ==
    /\ a_pc = "start"
    /\ caller = "perform_analysis"
    /\ \E target_found \in BOOLEAN, rows \in RawLists :
        /\ raw_evidence' = IF target_found THEN rows ELSE <<>>
        /\ matches' = FinalEvidence(raw_evidence')
    /\ a_pc' = "score"
    /\ UNCHANGED <<ex_vars, fe_vars, caller, confidence_info, structured_evidence,
                   explanation, llm_prompts>>

\* calculate_confidence called with a list of the caller's own
DirectCall ==
    /\ a_pc = "start"
    /\ caller = "direct"
    /\ matches' \in MatchLists \cup TaggedLists
    /\ a_pc' = "score"
    /\ UNCHANGED <<ex_vars, fe_vars, caller, raw_evidence, confidence_info,
                   structured_evidence, explanation, llm_prompts>>

\* main.py 128 / scoring.py 1-261: calculate_confidence returns
Score ==
    /\ a_pc = "score"
    /\ confidence_info' \in calculate_confidence(matches)
    /\ a_pc' = "done"
    /\ UNCHANGED <<ex_vars, fe_vars, caller, raw_evidence, matches,
                   structured_evidence, explanation, llm_prompts>>

\* ---------------------------------------------------------------------
\* The narrative layer: LLMService.analyze (llm.py 94-148) and the digest
\* perform_analysis builds for it (main.py 126-162)
\* ---------------------------------------------------------------------

\* the fixed texts of analyze, each one string
FALLBACK_PROMPT == <<"<The system could not retrieve valid evidence ...>">>
ERROR_NOT_RUNNING == <<"<Error: Local AI Assistant (Ollama DeepSeek) is not running ...>">>
ERROR_FAILED == <<"<Error: Failed to generate explanation ...>">>

\* self.ollama_ready after __init__ (llm.py 78-81)
ollama_ready == TRUE

\* what _call_llm can do: raise, or return the "response" field of the answer
\* ("" when the answer has none); <think> and </think> stand for the tags
LLMOutcomes ==
    {[raised |-> TRUE, response |-> <<>>],
     [raised |-> FALSE, response |-> <<>>],
     [raised |-> FALSE,
      response |-> <<"<think>", "t", "</think>", " ", "S", "u", "m", ".", " ">>]}

RECURSIVE RemoveThink(_)
\* re.sub(r'<think>.*?</think>', '', raw_output, flags=re.DOTALL)
RemoveThink(s) ==
    LET open == IndexOfSub(s, <<"<think>">>, 1)
        close == IF open = 0 THEN 0 ELSE IndexOfSub(s, <<"</think>">>, open + 1)
    IN  IF close = 0 THEN s
        ELSE SubSeq(s, 1, open - 1) \o RemoveThink(SubSeq(s, close + 1, Len(s)))

\* _analyze_with_ollama: one prompt, the cleaned output or the error text
analyze_with_ollama(evidence_data, outcome) ==
    [text |-> IF outcome.raised THEN ERROR_FAILED
              ELSE strip(RemoveThink(outcome.response)),
     prompts |-> <<evidence_data>>]

\* ZeroConfidence without the test of the score
ZeroConfidence_Never(evidence_data) == FALSE

\* metadata.get("confidence_score") == 0.0
ZeroConfidence(evidence_data) ==
    /\ "metadata" \in DOMAIN evidence_data
    /\ "confidence_score" \in DOMAIN evidence_data.metadata
    /\ evidence_data.metadata.confidence_score = 0

\* not evidence_data.get("evidence_items")
NoEvidenceItems(evidence_data) ==
    \/ "evidence_items" \notin DOMAIN evidence_data
    \/ evidence_data.evidence_items = <<>>

\* LLMService.analyze: the text returned and the prompts sent for it
analyze(evidence_data, outcome) ==
    IF ZeroConfidence(evidence_data) \/ NoEvidenceItems(evidence_data)
    THEN [text |-> FALLBACK_PROMPT, prompts |-> <<>>]
    ELSE IF ollama_ready THEN analyze_with_ollama(evidence_data, outcome)
    ELSE [text |-> ERROR_NOT_RUNNING, prompts |-> <<>>]

\* the sources of the references of item that have one
RefSources(item) ==
    LET refs == RefsOf(item)
        sourced == SelectSeq(refs, LAMBDA r : Truthy(r.source))
    IN  [j \in 1..Len(sourced) |-> sourced[j].source]

\* an entry of evidence_items (main.py 151-158; the resolved target name is
\* the same for every entry and is left out)
EvidenceItem(item) ==
    [drug |-> item.drug.name, mechanism |-> item.mechanismOfAction,
     phase |-> item.phase, drugType |-> item.drugType,
     references |-> RefSources(item)]

\* structured_evidence of perform_analysis: confidence_score is
\* score / 100, kept in thousandths (the score is kept in tenths); the items
\* are those of evidence[:5]
StructuredEvidence(info, evidence) ==
    [metadata |-> [confidence_score |-> info.score,
                   max_phase |-> info.max_phase,
                   deduplicated_evidence_count |-> info.evidence_count,
                   unique_sources |-> info.source_count],
     evidence_items |->
        [i \in 1..(IF Len(evidence) < 5 THEN Len(evidence) ELSE 5) |->
            EvidenceItem(evidence[i])]]

\* an entry a caller of analyze writes itself
ITEM_ASPIRIN ==
    [drug |-> <<"A","S","P","I","R","I","N">>, mechanism |-> None, phase |-> Phase(4),
     drugType |-> TYPE_small, references |-> <<>>]

\* The digests a direct caller hands to analyze: zero confidence with an
\* item; confidence without items; confidence with an item; no metadata;
\* metadata without confidence_score; no evidence_items key.
DigestPool ==
    {[metadata |-> [confidence_score |-> 0], evidence_items |-> <<ITEM_ASPIRIN>>],
     [metadata |-> [confidence_score |-> 850], evidence_items |-> <<>>],
     [metadata |-> [confidence_score |-> 850], evidence_items |-> <<ITEM_ASPIRIN>>],
     [evidence_items |-> <<ITEM_ASPIRIN>>],
     [metadata |-> [max_phase |-> Phase(4)], evidence_items |-> <<ITEM_ASPIRIN>>],
     [metadata |-> [confidence_score |-> 850]]}

\* main.py 131-162: perform_analysis builds the digest and analyze returns
Narrate ==
    /\ a_pc = "done"
    /\ caller = "perform_analysis"
    /\ structured_evidence' = StructuredEvidence(confidence_info, matches)
    /\ \E outcome \in LLMOutcomes :
        /\ explanation' = analyze(structured_evidence', outcome).text
        /\ llm_prompts' = analyze(structured_evidence', outcome).prompts
    /\ a_pc' = "returned"
    /\ UNCHANGED <<ex_vars, fe_vars, caller, raw_evidence, matches, confidence_info>>

\* analyze called with a digest of the caller's own
DirectAnalyze ==
    /\ a_pc = "start"
    /\ caller = "analyze"
    /\ structured_evidence' \in DigestPool
    /\ \E outcome \in LLMOutcomes :
        /\ explanation' = analyze(structured_evidence', outcome).text
        /\ llm_prompts' = analyze(structured_evidence', outcome).prompts
    /\ a_pc' = "returned"
    /\ UNCHANGED <<ex_vars, fe_vars, caller, raw_evidence, matches, confidence_info>>

AnalysisNext ==
    \/ FetchEvidence
    \/ DirectCall
    \/ Score
    \/ Narrate
    \/ DirectAnalyze

SpecAnalysis == AnalysisInit /\ [][AnalysisNext]_vars

(***************************************************************************)
(* Properties of extract_entities, checked under SpecExtract               *)
(***************************************************************************)
\* the calls of fn issued from a step, in order
CallsOf(fn, step) == SelectSeq(calls, LAMBDA c : c.fn = fn /\ c.step = step)

ResolverCalls ==
    SelectSeq(calls, LAMBDA c : c.fn \in {"search_drug_id", "search_target_id"})

LLMCalls == SelectSeq(calls, LAMBDA c : c.fn = "_extract_with_llm")

\* search_candidates has returned both a drug and a target
Stage1ResolvedBoth == Truthy(final_drug) /\ Truthy(final_target)

\* C1: whenever stage 1 (search_candidates on the normalized query) returns
\* both a drug and a target, the run has returned exactly that pair and has
\* issued no external resolver call and no generative call.
C1_Stage1EarlyExit ==
    Stage1ResolvedBoth =>
        /\ pc = "done"
        /\ result = <<final_drug, final_target>>
        /\ ResolverCalls = <<>>
        /\ LLMCalls = <<>>

C1_Witness ==
    /\ pc = "done"
    /\ user_query = W_Imatinib \o <<" ">> \o W_helps \o <<" ">> \o W_BCR_ABL1
    /\ result = <<DOC_Imatinib, DOC_BCR_ABL1>>
    /\ Stage1ResolvedBoth

\* the side was resolved when stage 2 ended (or stage 1 returned): by the
\* seeded corpus, or by a stage-2 lookup that returned a name
DrugAfterStage2 ==
    \/ Truthy(final_drug)
    \/ \E i \in 1..Len(calls) :
        /\ calls[i].fn = "search_drug_id" /\ calls[i].step = 2
        /\ calls[i].returned /\ Truthy(calls[i].name)

TargetAfterStage2 ==
    \/ Truthy(final_target)
    \/ \E i \in 1..Len(calls) :
        /\ calls[i].fn = "search_target_id" /\ calls[i].step = 2
        /\ calls[i].returned /\ Truthy(calls[i].name)

Stage2Over == pc \in {"step3", "s3_llm_wait", "s3_drug", "s3_drug_wait",
                      "s3_target", "s3_target_wait", "final", "done"}

\* C2: in every run the generative extractor is called at most once, only
\* after every stage-2 candidate trial has finished (no stage-2 lookup is
\* issued or pending once it is called), and, once stage 2 is over and step 3
\* has been entered or the run has returned, it has been called if and only
\* if a side was still unresolved when stage 2 ended.
C2_LLMOnceAfterStage2 ==
    /\ Len(LLMCalls) <= 1
    /\ \A i, j \in 1..Len(calls) :
        (calls[i].fn = "_extract_with_llm" /\ i # j /\ calls[j].step = 2)
            => (j < i /\ calls[j].returned)
    /\ LLMCalls # <<>> => Stage2Over
    /\ pc \in {"s3_llm_wait", "s3_drug", "s3_drug_wait", "s3_target",
               "s3_target_wait", "final", "done"}
        => (LLMCalls # <<>> <=> ~(DrugAfterStage2 /\ TargetAfterStage2))

C2_Witness ==
    /\ pc = "done"
    /\ Len(LLMCalls) = 1
    /\ CallsOf("search_drug_id", 2) # <<>>
    /\ CallsOf("search_target_id", 2) # <<>>
    /\ DrugAfterStage2
    /\ ~TargetAfterStage2

\* C3: extract_entities never fails with an error: whatever the
\* collaborators do, no exception leaves it.
C3_NeverRaises == pc # "raised"

\* the names the external resolver returned for a function in this run
ResolverNames(fn) ==
    {calls[i].name : i \in {k \in 1..Len(calls) :
        calls[k].fn = fn /\ calls[k].returned /\ Truthy(calls[k].name)}}

\* the step-3 verification of a side has returned, and with this name
Verified(fn) == CallsOf(fn, 3) # <<>> /\ CallsOf(fn, 3)[1].returned

\* once the step-3 verification of a side has returned, that side is the
\* canonical name the resolver returned for the suggestion, or None if it
\* returned none
Stage3AcceptsOnlyResolverNames ==
    /\ Verified("search_drug_id") =>
        /\ CallsOf("search_drug_id", 3)[1].arg = llm_entities.drug
        /\ local_drug = CallsOf("search_drug_id", 3)[1].name
    /\ Verified("search_target_id") =>
        /\ CallsOf("search_target_id", 3)[1].arg = llm_entities.target
        /\ local_target = CallsOf("search_target_id", 3)[1].name

\* C4 (as stated): a name suggested by the generative extractor is never
\* returned as such, stage 3 accepting only the resolver's canonical name, and
\* every non-None name the run returns is a seeded-corpus document or a
\* canonical name returned by the external resolver.
C4_ReturnedNameIsDocumentOrResolverName ==
    /\ Stage3AcceptsOnlyResolverNames
    /\ pc = "done" =>
        /\ result[1] \in {None} \cup DrugDocs \cup ResolverNames("search_drug_id")
        /\ result[2] \in {None} \cup TargetDocs \cup ResolverNames("search_target_id")

\* C4 (amended): a name suggested by the generative extractor is never
\* returned as such, stage 3 accepting only the resolver's canonical name, and
\* every non-None name the run returns is a seeded drug document, a seeded
\* target document cut before its first " (", or a canonical name returned by
\* the external resolver.
C4_OnlyVerifiedNames ==
    /\ Stage3AcceptsOnlyResolverNames
    /\ pc = "done" =>
        /\ result[1] \in {None} \cup DrugDocs \cup ResolverNames("search_drug_id")
        /\ result[2] \in {None} \cup {CleanSymbol(doc) : doc \in TargetDocs}
                            \cup ResolverNames("search_target_id")
        /\ Truthy(final_drug) => result[1] = final_drug
        /\ Truthy(final_target) => result[2] = final_target

C4_Witness ==
    /\ pc = "done"
    /\ Verified("search_drug_id")
    /\ llm_entities.drug = SUGG_gleevec
    /\ result[1] = NAME_IMATINIB
    /\ final_target = CleanSymbol(DOC_ERBB2)
    /\ final_target \notin TargetDocs
    /\ result[2] = final_target

\* no call of fn is issued in this step
NoNewCall(fn) ==
    \A i \in (Len(calls) + 1)..Len(calls') : calls'[i].fn # fn

\* C5: once the drug (the target) is resolved, no later step of the run
\* issues a drug (target) resolver call and the resolved value stays as it is,
\* and the pair returned is the pair of resolved values.
C5_ResolvedSideIsLeftAlone ==
    [][/\ Truthy(local_drug) =>
            (local_drug' = local_drug /\ NoNewCall("search_drug_id"))
       /\ Truthy(local_target) =>
            (local_target' = local_target /\ NoNewCall("search_target_id"))
       /\ (pc' = "done" /\ pc # "done") => result' = <<local_drug', local_target'>>
      ]_vars

C5_Witness ==
    /\ pc = "done"
    /\ Truthy(final_target)
    /\ ~Truthy(final_drug)
    /\ CallsOf("search_drug_id", 2) # <<>>
    /\ CallsOf("search_drug_id", 3) # <<>>
    /\ result[2] = final_target

\* the position of a candidate in the stage-2 list
PosInCandidates(term) == IndexOf(term, candidates)

\* the lookups of a stage-2 loop went through the list in its order, and
\* every one before the last returned without a name
InListOrderUntilFirstHit(trials) ==
    /\ \A k \in 1..Len(trials) : PosInCandidates(trials[k].arg) > 0
    /\ \A k \in 1..(Len(trials) - 1) :
        /\ PosInCandidates(trials[k].arg) < PosInCandidates(trials[k + 1].arg)
        /\ trials[k].returned
        /\ ~Truthy(trials[k].name)

\* the drug known while the stage-2 target loop runs
DrugForTargetLoop ==
    IF Truthy(final_drug) THEN final_drug
    ELSE IF ResolverNames("search_drug_id") # {} /\ CallsOf("search_drug_id", 2) # <<>>
            /\ Truthy(CallsOf("search_drug_id", 2)[Len(CallsOf("search_drug_id", 2))].name)
    THEN CallsOf("search_drug_id", 2)[Len(CallsOf("search_drug_id", 2))].name
    ELSE None

\* C6: in stage 2, for each missing side, the candidates go to the external
\* resolver one at a time in the order of the candidate list (which is by
\* non-increasing length): a lookup starts only when every earlier call has
\* returned, the drug loop leaves out no candidate, the target loop leaves out
\* only candidates equal to the drug ignoring case, and no lookup for a side
\* follows the first one that returned a canonical name.
C6_Stage2OneByOneInOrder ==
    /\ \A i \in 1..(Len(calls) - 1) : calls[i].returned
    /\ \A k \in 1..(Len(candidates) - 1) : Len(candidates[k]) >= Len(candidates[k + 1])
    /\ InListOrderUntilFirstHit(CallsOf("search_drug_id", 2))
    /\ \A k \in 1..Len(CallsOf("search_drug_id", 2)) :
        CallsOf("search_drug_id", 2)[k].arg = candidates[k]
    /\ InListOrderUntilFirstHit(CallsOf("search_target_id", 2))
    /\ \A k \in 1..Len(CallsOf("search_target_id", 2)) :
        \A m \in 1..(PosInCandidates(CallsOf("search_target_id", 2)[k].arg) - 1) :
            \/ \E n \in 1..(k - 1) :
                CallsOf("search_target_id", 2)[n].arg = candidates[m]
            \/ SameAsDrug(candidates[m], DrugForTargetLoop)

C6_Witness ==
    /\ Len(CallsOf("search_drug_id", 2)) = 2
    /\ Truthy(CallsOf("search_drug_id", 2)[2].name)
    /\ Len(CallsOf("search_target_id", 2)) = 2
    /\ Truthy(CallsOf("search_target_id", 2)[2].name)
    /\ pc = "done"

(***************************************************************************)
(* Properties of get_drug_target_interactions and search_entity, checked   *)
(* under SpecFetch                                                         *)
(***************************************************************************)
\* the entries of f_log for one kind of request
LogOf(op) == SelectSeq(f_log, LAMBDA e : e.op = op)

\* C7: query (a) is attempted at most max_retries times; the attempts are
\* numbered 0, 1, ... and attempt n+1 is made only if attempt n ended in a
\* timeout: an attempt that succeeded, got a non-200 response or failed with
\* any other error is the last one.
C7_RetryOnTimeoutOnly ==
    /\ Len(LogOf("query_a")) <= max_retries
    /\ \A k \in 1..Len(LogOf("query_a")) : LogOf("query_a")[k].n = k - 1
    /\ \A k \in 1..(Len(LogOf("query_a")) - 1) :
        LogOf("query_a")[k].outcome = "timeout"
    /\ \A k \in 1..Len(LogOf("query_a")) :
        (LogOf("query_a")[k].outcome \notin {"", "timeout"}
         \/ (LogOf("query_a")[k].outcome = "timeout" /\ k = max_retries))
            => k = Len(LogOf("query_a"))
    /\ f_pc \in {"query_b", "query_b_wait", "aggregate", "done"} /\ Truthy(drug_id)
        => \/ Len(LogOf("query_a")) = max_retries
           \/ LogOf("query_a")[Len(LogOf("query_a"))].outcome # "timeout"

C7_Witness ==
    /\ f_pc = "done"
    /\ max_retries = MaxRetriesArg
    /\ Len(LogOf("query_a")) = 3
    /\ LogOf("query_a")[2].outcome = "timeout"
    /\ LogOf("query_a")[3].outcome = "http_error"
    /\ LogOf("sleep") # <<>>

\* the resolution of the drug name has returned
Resolved == f_pc \notin {"resolve", "resolve_wait"}

\* C8: when the drug name resolves to no id, get_drug_target_interactions has
\* returned the empty list right after the resolution: the only request it
\* ever sent is the name search, with no query (a), no query (b) and no
\* backoff sleep.
C8_NoDrugIdReturnsEmpty ==
    (Resolved /\ ~Truthy(drug_id)) =>
        /\ f_pc = "done"
        /\ f_result = <<>>
        /\ \A k \in 1..Len(f_log) : f_log[k].op = "search"

C8_Witness ==
    /\ f_pc = "done"
    /\ se_response.status = 500
    /\ drug_id = None
    /\ max_retries = MaxRetriesArg

\* the first hit of a response, or <<None, None>> when it has none to give
FirstHitOrNone(response) ==
    IF response.raised \/ response.status # 200 \/ response.hits = <<>>
    THEN <<None, None>>
    ELSE <<response.hits[1].id, response.hits[1].name>>

\* C9: search_entity sends exactly one lookup and no error leaves it: it
\* returns (None, None) when the call raised, the status is not 200 or there
\* are no hits, and the id and name of the first hit otherwise.
C9_SearchEntityFirstHitOrNone ==
    /\ f_pc # "raised"
    /\ Resolved =>
        /\ Len(LogOf("search")) = 1
        /\ <<drug_id, canonical_drug_name>> = FirstHitOrNone(se_response)

C9_Witness ==
    /\ Resolved
    /\ Len(se_response.hits) = 2
    /\ se_response.hits[1].id # se_response.hits[2].id
    /\ drug_id = se_response.hits[1].id
    /\ canonical_drug_name = se_response.hits[1].name

\* the grouping keys of a list of evidence records, in order
KeysOf(evidence) == [k \in 1..Len(evidence) |-> EvidenceKey(evidence[k])]

\* evidence after query (b) differs from evidence before it at most by
\* references appended to the first item
OnlyFirstReferencesExtended(before, after) ==
    /\ Len(after) = Len(before)
    /\ \A k \in 2..Len(before) : after[k] = before[k]
    /\ before # <<>> =>
        /\ [after EXCEPT ![1].references = before[1].references] = before
        /\ before[1].references # NoneList =>
            /\ Len(after[1].references) >= Len(before[1].references)
            /\ SubSeq(after[1].references, 1, Len(before[1].references))
                    = before[1].references

\* C10: whatever query (b) does, it only appends references to the first
\* evidence item: the list returned has as many records, with the same (drug
\* id, target id, phase, mechanism) keys in the same order, as the list
\* returned when query (b) adds nothing, and the call returns (query (b)
\* raising never ends it).
C10_QueryBOnlyAddsReferences ==
    /\ f_pc \in {"aggregate", "done"} =>
        OnlyFirstReferencesExtended(evidence_a, all_evidence)
    /\ f_pc = "done" =>
        /\ Len(f_result) = Len(FinalEvidence(evidence_a))
        /\ KeysOf(f_result) = KeysOf(FinalEvidence(evidence_a))
    /\ f_pc = "query_b_wait" => ENABLED FQueryBReturn

C10_Witness ==
    /\ f_pc = "done"
    /\ Len(evidence_a) = 2
    /\ all_evidence # evidence_a
    /\ Len(all_evidence[1].references) = Len(evidence_a[1].references) + 2
    /\ f_result # FinalEvidence(evidence_a)

\* ---------------------------------------------------------------------
\* Properties of aggregate_sources, extract_sources_from_evidence and
\* calculate_confidence, checked under SpecAnalysis
\* ---------------------------------------------------------------------

\* the pipeline has fetched its evidence
Fetched == caller = "perform_analysis" /\ a_pc \in {"score", "done"}

\* the references of all rows of evidence_list with the given key, in order
RECURSIVE GroupRefs(_, _, _)
GroupRefs(evidence_list, key, i) ==
    IF i > Len(evidence_list) THEN <<>>
    ELSE (IF EvidenceKey(evidence_list[i]) = key
          THEN RefsOrEmpty(evidence_list[i]) ELSE <<>>)
         \o GroupRefs(evidence_list, key, i + 1)

\* the first position of source in refs
FirstPos(refs, source) ==
    CHOOSE p \in 1..Len(refs) :
        /\ refs[p].source = source
        /\ \A q \in 1..(p - 1) : refs[q].source # source

\* merged holds each non-empty source of refs once: the first reference
\* seen for it, in the order of first occurrence
FirstReferencePerSource(merged, refs) ==
    /\ {merged[j].source : j \in 1..Len(merged)}
         = {refs[p].source : p \in {q \in 1..Len(refs) : Truthy(refs[q].source)}}
    /\ \A j, k \in 1..Len(merged) : j # k => merged[j].source # merged[k].source
    /\ \A j \in 1..Len(merged) : merged[j] = refs[FirstPos(refs, merged[j].source)]
    /\ \A j, k \in 1..Len(merged) :
         j < k => FirstPos(refs, merged[j].source) < FirstPos(refs, merged[k].source)

\* merged is one record per distinct key of evidence_list, each with the
\* first reference per source of its group
OneRecordPerKey(merged, evidence_list) ==
    /\ {EvidenceKey(merged[k]) : k \in 1..Len(merged)}
         = {EvidenceKey(evidence_list[i]) : i \in 1..Len(evidence_list)}
    /\ \A j, k \in 1..Len(merged) :
         j # k => EvidenceKey(merged[j]) # EvidenceKey(merged[k])
    /\ \A k \in 1..Len(merged) :
         FirstReferencePerSource(merged[k].references,
                                 GroupRefs(evidence_list, EvidenceKey(merged[k]), 1))

\* C11: aggregate_sources returns exactly one merged record per distinct
\* key (drug id, target id, phase, mechanismOfAction), and the reference
\* list of each merged record holds every non-empty source string of its
\* group exactly once: the first reference seen for that source, in
\* first-occurrence order.
C11_OneMergedRecordPerKey ==
    Fetched =>
        /\ OneRecordPerKey(aggregate_sources(raw_evidence), raw_evidence)
        /\ Len(matches) = Len(aggregate_sources(raw_evidence))
        /\ \A k \in 1..Len(matches) :
             EvidenceKey(matches[k]) = EvidenceKey(aggregate_sources(raw_evidence)[k])

\* three rows, two of one key whose ChEMBL references differ, merged to two
\* records of which the first keeps the ChEMBL reference seen first
C11_Witness ==
    /\ Fetched
    /\ Len(raw_evidence) = 3
    /\ EvidenceKey(raw_evidence[1]) = EvidenceKey(raw_evidence[3])
    /\ EvidenceKey(raw_evidence[1]) # EvidenceKey(raw_evidence[2])
    /\ raw_evidence[1].references # raw_evidence[3].references
    /\ Len(aggregate_sources(raw_evidence)) = 2
    /\ aggregate_sources(raw_evidence)[1].references
         = <<[source |-> SRC_ChEMBL, urls |-> <<URL_1>>], Ref(SRC_FDA)>>

CountSource(refs, source) ==
    Cardinality({j \in 1..Len(refs) : refs[j].source = source})

\* the references of after that follow those of before
AppendedRefs(before, after) ==
    SubSeq(after.references, Len(before.references) + 1, Len(after.references))

\* appended is what extract_sources_from_evidence adds to item
InferredByPhaseAndMechanism(appended, item) ==
    /\ \A j \in 1..Len(appended) :
         /\ appended[j].urls = <<>>
         /\ appended[j].source \in {SRC_ChEMBL, SRC_FDA, SRC_DailyMed,
                                    SRC_ClinicalTrials, SRC_DrugBank}
    /\ CountSource(appended, SRC_ChEMBL) = 1
    /\ CountSource(appended, SRC_FDA) = (IF item.phase = Phase(4) THEN 1 ELSE 0)
    /\ CountSource(appended, SRC_DailyMed) = (IF item.phase = Phase(4) THEN 1 ELSE 0)
    /\ CountSource(appended, SRC_ClinicalTrials)
         = (IF item.phase \in {Phase(1), Phase(2), Phase(3), Phase(4)} THEN 1 ELSE 0)
    /\ CountSource(appended, SRC_DrugBank)
         = (IF Truthy(item.mechanismOfAction) THEN 1 ELSE 0)

\* one phase-4 row with one ChEMBL reference, no mechanism and no drug type
SinglePhase4Row == <<RawRow(Phase(4), None, None, <<Ref(SRC_ChEMBL)>>)>>

\* C13: extract_sources_from_evidence appends to every record a "ChEMBL"
\* reference unconditionally, "FDA" and "DailyMed" iff phase = 4,
\* "ClinicalTrials.gov" iff the phase is one of 1, 2, 3, 4 and "DrugBank"
\* iff a mechanism string is present, whatever sources the record already
\* carries; so a single phase-4 record with one ChEMBL reference and no
\* mechanism or drug type is scored with source count 4, ETS 1.0, ECS 0.70.
C13_InferredSourcesAppended ==
    Fetched =>
        LET merged == aggregate_sources(raw_evidence)
        IN  /\ Len(matches) = Len(merged)
            /\ \A k \in 1..Len(matches) :
                 /\ SubSeq(matches[k].references, 1, Len(merged[k].references))
                      = merged[k].references
                 /\ InferredByPhaseAndMechanism(
                        AppendedRefs(merged[k], matches[k]), merged[k])
            /\ (a_pc = "done" /\ raw_evidence = SinglePhase4Row) =>
                 /\ CountSource(matches[1].references, SRC_ChEMBL) = 2
                 /\ confidence_info.source_count = 4
                 /\ confidence_info.factors.ets = 100
                 /\ confidence_info.factors.ecs = 70

\* the single phase-4 row has been scored
C13_Witness ==
    /\ Fetched
    /\ a_pc = "done"
    /\ raw_evidence = SinglePhase4Row
    /\ Len(matches[1].references) = 5
    /\ confidence_info.source_count = 4

\* calculate_confidence has returned
Scored == a_pc = "done"

\* no record of ms has an evidence-level tag or a reference with a source
NoSourceTags(ms) ==
    \A i \in 1..Len(ms) :
        /\ ~Truthy(Get(ms[i], "datasourceId"))
        /\ ~Truthy(Get(ms[i], "source"))
        /\ ~Truthy(Get(ms[i], "drugType"))
        /\ \A j \in 1..Len(RefsOf(ms[i])) : ~Truthy(RefsOf(ms[i])[j].source)

\* no record of ms has a mechanism
NoMechanismData(ms) ==
    \A i \in 1..Len(ms) : ~Truthy(Get(ms[i], "mechanismOfAction"))

\* the empty list has been scored
EmptyListScored == Scored /\ matches = <<>>

\* C14: calculate_confidence returns on the edge cases: for the empty list
\* the score is 0.0 with evidence count 0, source count 0, no evidence
\* types, reasoning "No evidence found" and no factor computed; for a
\* non-empty list without any source tag ECS is 0.10; for a non-empty list
\* without mechanism data CS is 1.0.
C14_EdgeCasesAreScored ==
    Scored =>
        /\ confidence_info # EmptyMapping
        /\ matches = <<>> =>
             /\ confidence_info.score = 0
             /\ confidence_info.evidence_count = 0
             /\ confidence_info.source_count = 0
             /\ confidence_info.evidence_types = {}
             /\ confidence_info.reasoning
                  = <<"N","o"," ","e","v","i","d","e","n","c","e"," ","f","o","u","n","d">>
             /\ confidence_info.factors = EmptyMapping
        /\ (matches # <<>> /\ NoSourceTags(matches)) =>
             /\ confidence_info.source_count = 0
             /\ confidence_info.factors.ecs = 10
        /\ (matches # <<>> /\ NoMechanismData(matches)) =>
             confidence_info.factors.cs = 100

\* two records without source tags and without mechanism have been scored
C14_Witness ==
    /\ Scored
    /\ Len(matches) = 2
    /\ NoSourceTags(matches)
    /\ NoMechanismData(matches)
    /\ confidence_info.factors.ecs = 10
    /\ confidence_info.factors.cs = 100

\* 0.40 ETS + 0.25 ECS + 0.20 EQS + 0.15 CS of the list ms
WeightedOf(ms) ==
    WeightedScore(ETSOfPhase(MaxPhaseFrom(ms, 1, 0, None)[1],
                             HasPreclinical(ms, PreclinicalSources)),
                  ECSOfCount(Cardinality(UniqueSources(ms))),
                  EQSOf(ms),
                  CSOfCount(Cardinality(UniqueMechanisms(ms))))

\* the scores (in tenths) of ms when the depth bonus is chosen by item_count
ScoresWithBonusOf(ms, item_count) ==
    RoundTo(FinalScore(WeightedOf(ms), item_count), 10)

\* the number of evidence items before merging: the rows collected by the
\* pipeline, or the records of a list handed over directly
RawItemCount ==
    IF caller = "perform_analysis" THEN Len(raw_evidence) ELSE Len(matches)

\* the score is the weighted sum with the bonus of the scored list's own
\* length, within [0, 100]
ScoreByListLength ==
    (Scored /\ matches # <<>>) =>
        /\ confidence_info.score \in ScoresWithBonusOf(matches, Len(matches))
        /\ confidence_info.score \in 0..1000

\* C15: for every non-empty evidence list the score is
\* 100 (0.40 ETS + 0.25 ECS + 0.20 EQS + 0.15 CS) times a depth bonus of
\* 1.05 / 1.03 / 1.01 / 1.0 chosen by the raw, pre-merge evidence item
\* count (>= 20 / >= 10 / >= 5 / otherwise), clamped to at most 100; in the
\* analysis pipeline the bonus is chosen by the number of evidence rows
\* before aggregation, and the score lies in [0, 100].
C15_BonusByRawItemCount ==
    (Scored /\ matches # <<>>) =>
        /\ confidence_info.score \in ScoresWithBonusOf(matches, RawItemCount)
        /\ confidence_info.score \in 0..1000

\* ms with the phase of record i set to phase
WithPhase(ms, i, phase) == [ms EXCEPT ![i].phase = phase]

\* the results of ms with its first record raised to a phase above max_phase
ResultsWithRaisedPhase(ms, max_phase) ==
    UNION {calculate_confidence(WithPhase(ms, 1, q)) :
             q \in {p \in {Phase(1), Phase(2), Phase(3), Phase(4)} : p > max_phase}}

\* other differs from info in the phase factor only
SameOtherFactors(info, other) ==
    /\ other.factors.ecs = info.factors.ecs
    /\ other.factors.eqs = info.factors.eqs
    /\ other.factors.cs = info.factors.cs
    /\ other.evidence_count = info.evidence_count

\* C16: the score is monotone in the clinical phase: for two evidence
\* lists with the same ECS, EQS, CS and item count, raising the maximum
\* phase along 1, 2, 3, 4 never decreases ETS (0.45, 0.65, 0.85, 1.0) and
\* never decreases the final score.
C16_ScoreMonotoneInPhase ==
    (Scored /\ matches # <<>>
     /\ confidence_info.max_phase \in {Phase(1), Phase(2), Phase(3), Phase(4)}) =>
        /\ \A n \in 1..4 :
             confidence_info.max_phase = Phase(n)
                => confidence_info.factors.ets = <<45, 65, 85, 100>>[n]
        /\ \A other \in ResultsWithRaisedPhase(matches, confidence_info.max_phase) :
             (other.max_phase > confidence_info.max_phase
              /\ SameOtherFactors(confidence_info, other)) =>
                /\ other.factors.ets >= confidence_info.factors.ets
                /\ other.score >= confidence_info.score

\* a list of maximum phase 2 has been scored, and the same list with a
\* record raised to phase 3 has the same other factors and a higher score
C16_Witness ==
    /\ Scored
    /\ Len(matches) >= 2
    /\ confidence_info.max_phase = Phase(2)
    /\ \E other \in ResultsWithRaisedPhase(matches, Phase(2)) :
         /\ other.max_phase = Phase(3)
         /\ SameOtherFactors(confidence_info, other)
         /\ other.factors.ets = 85
         /\ other.score > confidence_info.score

\* the first non-empty of datasourceId, source and drugType of each record
EvidenceLevelTags(ms) ==
    {tag \in UNION {{Get(ms[i], "datasourceId"), Get(ms[i], "source"),
                     Get(ms[i], "drugType")} : i \in 1..Len(ms)} :
        \E i \in 1..Len(ms) :
            \/ tag = Get(ms[i], "datasourceId") /\ Truthy(tag)
            \/ /\ ~Truthy(Get(ms[i], "datasourceId"))
               /\ tag = Get(ms[i], "source") /\ Truthy(tag)
            \/ /\ ~Truthy(Get(ms[i], "datasourceId"))
               /\ ~Truthy(Get(ms[i], "source"))
               /\ tag = Get(ms[i], "drugType") /\ Truthy(tag)}

\* the non-empty source strings of the references of all records
ReferenceLevelSources(ms) ==
    {src \in UNION {{RefsOf(ms[i])[j].source : j \in 1..Len(RefsOf(ms[i]))} :
                      i \in 1..Len(ms)} : Truthy(src)}

\* C17: source_count is the size of the union of the evidence-level tags
\* (first non-empty of datasourceId / source / drugType per record) and all
\* non-empty reference-level source strings, compared by case-sensitive
\* exact match ("CHEMBL" and "ChEMBL" count as two); hence it is never
\* smaller than the number of distinct reference-level sources.
C17_SourceCountIsUnionSize ==
    (Scored /\ matches # <<>>) =>
        /\ confidence_info.source_count
             = Cardinality(EvidenceLevelTags(matches) \cup ReferenceLevelSources(matches))
        /\ confidence_info.evidence_types
             = EvidenceLevelTags(matches) \cup ReferenceLevelSources(matches)
        /\ confidence_info.source_count >= Cardinality(ReferenceLevelSources(matches))

\* one record tagged "Animal" by its source field (its datasourceId is
\* empty) with the references "ChEMBL" and "CHEMBL" has been scored: three
\* sources
C17_Witness ==
    /\ Scored
    /\ Len(matches) = 1
    /\ Get(matches[1], "datasourceId") = <<>>
    /\ EvidenceLevelTags(matches) = {SRC_animal}
    /\ ReferenceLevelSources(matches) = {SRC_ChEMBL, SRC_CHEMBL}
    /\ confidence_info.source_count = 3

\* ---------------------------------------------------------------------
\* Properties of the candidate lists, checked under SpecExtract
\* ---------------------------------------------------------------------

\* list holds no string twice and no element is shorter than the next
NoRepeatNonIncreasing(list) ==
    /\ \A i, j \in 1..Len(list) : i # j => list[i] # list[j]
    /\ \A i \in 1..(Len(list) - 1) : Len(list[i]) >= Len(list[i + 1])

\* C18: the lists returned by generate_smart_candidates and get_candidates
\* contain no string twice and are ordered by non-increasing length (each
\* element is at least as long as the next).
C18_CandidatesUniqueLongestFirst ==
    /\ NoRepeatNonIncreasing(candidates)
    /\ NoRepeatNonIncreasing(rag_candidates)
    /\ pc = "step1" =>
         \A c \in generate_smart_candidates(user_query)
                    \cup get_candidates(user_query)
                    \cup get_candidates(normalize_text(user_query)) :
             NoRepeatNonIncreasing(c)

\* step 2 works on two candidates of different length while the similarity
\* search worked on two candidates of its own
C18_Witness ==
    /\ Len(candidates) = 2
    /\ Len(candidates[1]) > Len(candidates[2])
    /\ Len(rag_candidates) = 2
    /\ candidates # rag_candidates
    /\ pc = "s2_drug"

\* a stage-2 lookup is awaited
Stage2LookupPending ==
    /\ pc \in {"s2_drug_wait", "s2_target_wait"}
    /\ calls # <<>>
    /\ calls[Len(calls)].step = 2
    /\ ~calls[Len(calls)].returned

\* C19: the pipeline is deterministic in its candidate order: for a fixed
\* query and fixed collaborator responses any two runs submit the same
\* candidates to the external resolver in the same order, also when several
\* candidates have the same length; the candidate a run submits at a
\* position is the one every run on this query submits there.
C19_CandidateOrderDeterministic ==
    Stage2LookupPending =>
        \A c \in generate_smart_candidates(user_query) :
            /\ c = candidates
            /\ c[idx] = calls[Len(calls)].arg

\* text has no capital letter and no hyphen
NoCapitalNoHyphen(text) ==
    \A i \in 1..Len(text) : ~isupper(text[i]) /\ text[i] # "-"

\* the query yields an empty candidate list (such a query has no capital
\* letter and no hyphen, which is tested first)
EmptyCandidateQuery ==
    /\ NoCapitalNoHyphen(user_query)
    /\ generate_smart_candidates(user_query) = {<<>>}

\* no stage-2 lookup was issued
NoStage2Call == \A i \in 1..Len(calls) : calls[i].step # 2

\* what a run without stage-2 lookups returns for a side: the stage-1 match,
\* else the name the resolver returned for the generator's suggestion, else
\* None
SideWithoutStage2(stage1_name, fn) ==
    IF Truthy(stage1_name) THEN stage1_name
    ELSE IF Verified(fn) THEN CallsOf(fn, 3)[1].name
    ELSE None

\* C20 (as stated): for a query that yields an empty candidate list,
\* extract_entities runs all three stages, makes no stage-2 resolver call,
\* and returns (None, None).
C20_EmptyCandidatesReturnNone ==
    (pc = "done" /\ EmptyCandidateQuery) =>
        /\ NoStage2Call
        /\ Len(LLMCalls) = 1
        /\ result = <<None, None>>

\* C20 (amended): for a query that yields an empty candidate list,
\* extract_entities makes no stage-2 resolver call, calls the generative
\* extractor exactly once unless stage 1 resolved both sides, and returns for
\* each side the stage-1 match, else the resolver's name for the generator's
\* suggestion, else None; so it returns (None, None) exactly when stage 1
\* matched nothing and no suggestion was verified.
C20_EmptyCandidatesSkipStage2 ==
    /\ (pc = "step1" /\ generate_smart_candidates(user_query) = {<<>>}) =>
         NoCapitalNoHyphen(user_query)
    /\ EmptyCandidateQuery =>
        /\ NoStage2Call
        /\ pc = "done" =>
             /\ Len(LLMCalls) = (IF Stage1ResolvedBoth THEN 0 ELSE 1)
             /\ \A i \in 1..Len(calls) : calls[i].returned
             /\ result = <<SideWithoutStage2(final_drug, "search_drug_id"),
                           SideWithoutStage2(final_target, "search_target_id")>>

\* a run on a query of stopwords has returned a drug and a target, both
\* resolver names for the generator's suggestions, without a stage-2 lookup
C20_Witness ==
    /\ pc = "done"
    /\ user_query # <<>>
    /\ EmptyCandidateQuery
    /\ NoStage2Call
    /\ Len(LLMCalls) = 1
    /\ Truthy(result[1])
    /\ Truthy(result[2])
    /\ Verified("search_drug_id")
    /\ Verified("search_target_id")

\* a run on a query of stopwords has returned (None, None) after the
\* generator suggested nothing
EmptyCandidatesNothingFound ==
    /\ pc = "done"
    /\ user_query # <<>>
    /\ EmptyCandidateQuery
    /\ Len(LLMCalls) = 1
    /\ result = <<None, None>>

\* ---------------------------------------------------------------------
\* Properties of the narrative layer, checked under SpecAnalysis
\* ---------------------------------------------------------------------

\* analyze has returned
Narrated == a_pc = "returned"

\* the digest handed to analyze has confidence_score 0.0
DigestScoreIsZero ==
    /\ "metadata" \in DOMAIN structured_evidence
    /\ "confidence_score" \in DOMAIN structured_evidence.metadata
    /\ structured_evidence.metadata.confidence_score = 0

\* the digest handed to analyze has no evidence item
DigestHasNoItems ==
    "evidence_items" \in DOMAIN structured_evidence
        => Len(structured_evidence.evidence_items) = 0

\* C21: the text-generation capability is never asked to explain a
\* zero-confidence result: whenever the digest's confidence_score is 0.0 or
\* its evidence_items list is empty (in particular whenever the target id
\* cannot be resolved or no evidence is fetched in perform_analysis), analyze
\* returns the fixed fallback text without calling the generative backend.
C21_NoNarrativeForZeroConfidence ==
    Narrated =>
        /\ (DigestScoreIsZero \/ DigestHasNoItems) =>
             /\ explanation = FALLBACK_PROMPT
             /\ llm_prompts = <<>>
        /\ (caller = "perform_analysis" /\ matches = <<>>) =>
             /\ explanation = FALLBACK_PROMPT
             /\ llm_prompts = <<>>

\* perform_analysis has returned for a pair without evidence: the digest has
\* score 0.0 and no items, the explanation is the fallback text
C21_Witness ==
    /\ Narrated
    /\ caller = "perform_analysis"
    /\ raw_evidence = <<>>
    /\ DigestScoreIsZero
    /\ DigestHasNoItems
    /\ explanation = FALLBACK_PROMPT
    /\ llm_prompts = <<>>

\* analyze was called directly with confidence_score 0.0 and one item
ZeroConfidenceWithItems ==
    /\ Narrated
    /\ caller = "analyze"
    /\ DigestScoreIsZero
    /\ ~DigestHasNoItems
    /\ explanation = FALLBACK_PROMPT

\* ---------------------------------------------------------------------
\* Further properties of extract_entities, checked under SpecExtract
\* ---------------------------------------------------------------------

\* term equals, ignoring case, the drug name known to the target loop
EqualsDrugIgnoringCase(term, drug) ==
    drug # None /\ drug # <<>> /\ lower(term) = lower(drug)

\* the stage-2 target loop stands before a candidate equal to the drug
BeforeDrugCandidate ==
    /\ pc = "s2_target"
    /\ idx <= Len(candidates)
    /\ EqualsDrugIgnoringCase(candidates[idx], local_drug)

\* C22: during the stage-2 target search no target lookup is issued for a
\* candidate that equals, ignoring case, the drug name resolved so far
\* (whether in stage 1 or in stage 2); such a candidate is skipped and the
\* loop continues with the next candidate.
C22_DrugCandidateSkippedForTarget ==
    /\ [](\A k \in 1..Len(CallsOf("search_target_id", 2)) :
            ~EqualsDrugIgnoringCase(CallsOf("search_target_id", 2)[k].arg,
                                    DrugForTargetLoop))
    /\ [][BeforeDrugCandidate =>
            /\ calls' = calls
            /\ idx' = idx + 1
            /\ pc' = "s2_target"
            /\ local_target' = local_target]_vars

\* the drug was resolved in stage 2 from the first candidate under another
\* spelling; the target loop has passed it and awaits the lookup of the second
C22_Witness ==
    /\ pc = "s2_target_wait"
    /\ ~Truthy(final_drug)
    /\ Truthy(local_drug)
    /\ idx = 2
    /\ candidates[1] # local_drug
    /\ EqualsDrugIgnoringCase(candidates[1], local_drug)
    /\ Len(CallsOf("search_target_id", 2)) = 1
    /\ CallsOf("search_target_id", 2)[1].arg = candidates[2]

\* the same with a drug resolved in stage 1
DrugOfStage1Skipped ==
    /\ pc = "s2_target_wait"
    /\ Truthy(final_drug)
    /\ idx > 1
    /\ \E k \in 1..(idx - 1) : EqualsDrugIgnoringCase(candidates[k], final_drug)
    /\ Len(CallsOf("search_target_id", 2)) = 1

\* ---------------------------------------------------------------------
\* Further properties of get_drug_target_interactions, checked under SpecFetch

\* the entries of f_log that are waits
IsSleep(e) == e.op = "sleep"

\* an attempt of query (a) that ended in a timeout
IsTimedOutAttempt(e) == e.op = "query_a" /\ e.outcome = "timeout"

\* C23: the waits of query (a) are an exponential backoff: a wait follows
\* only an attempt that timed out, lasts 2^n seconds after attempt n
\* (0-based), and is taken only when attempt n + 1 is still permitted, which
\* then is the next request; every timed-out attempt but the last permitted
\* one is followed by its wait; nothing waits after a success, after another
\* error or after the last permitted attempt.
C23_ExponentialBackoffBetweenAttempts ==
    \A i \in 1..Len(f_log) :
        /\ IsSleep(f_log[i])
            => /\ i > 1
               /\ IsTimedOutAttempt(f_log[i - 1])
               /\ f_log[i].n = 2 ^ (f_log[i - 1].n)
               /\ f_log[i - 1].n + 1 < max_retries
               /\ i < Len(f_log)
                    => /\ f_log[i + 1].op = "query_a"
                       /\ f_log[i + 1].n = f_log[i - 1].n + 1
        /\ (IsTimedOutAttempt(f_log[i]) /\ f_log[i].n + 1 < max_retries)
            => /\ i < Len(f_log)
               /\ IsSleep(f_log[i + 1])
        /\ (f_log[i].op = "query_a" /\ i < Len(f_log) /\ ~IsTimedOutAttempt(f_log[i]))
            => ~IsSleep(f_log[i + 1])

\* three attempts were permitted and all timed out: waits of 1 s and 2 s lie
\* between them and the request of query (b) follows the last one at once
C23_Witness ==
    /\ max_retries = 3
    /\ Len(f_log) >= 7
    /\ \E i \in 1..(Len(f_log) - 5) :
        /\ IsTimedOutAttempt(f_log[i]) /\ f_log[i].n = 0
        /\ IsSleep(f_log[i + 1]) /\ f_log[i + 1].n = 1
        /\ IsTimedOutAttempt(f_log[i + 2])
        /\ IsSleep(f_log[i + 3]) /\ f_log[i + 3].n = 2
        /\ IsTimedOutAttempt(f_log[i + 4]) /\ f_log[i + 4].n = 2
        /\ f_log[i + 5].op = "query_b"

\* an attempt that ended in an error other than a timeout, with attempts to
\* spare, and no wait after it
NoWaitAfterOtherError ==
    /\ max_retries = 3
    /\ \E i \in 1..(Len(f_log) - 1) :
        /\ f_log[i].op = "query_a" /\ f_log[i].n = 0
        /\ f_log[i].outcome = "http_error"
        /\ f_log[i + 1].op = "query_b"

\* ---------------------------------------------------------------------
\* Further properties of calculate_confidence, checked under SpecAnalysis

\* the tags the EQS rule places in the quality-1.0 bucket
StatedExpertTags ==
    {SRC_chembl, SRC_ttd, <<"f","d","a">>, <<"d","r","u","g","b","a","n","k">>,
     <<"d","a","i","l","y","m","e","d">>, <<"e","x","p","e","r","t">>,
     <<"c","u","r","a","t","e","d","_","m","a","n","u","a","l">>}

\* the tags the EQS rule places in the quality-0.5 bucket
StatedMiningTags ==
    {SRC_europepmc, SRC_pubmed, SRC_automated, SRC_literature,
     <<"m","i","n","i","n","g">>}

\* the quality the EQS rule gives a source tag, in quarters
StatedQuality(tag) ==
    IF ContainsAny(lower(tag), StatedExpertTags) THEN 4
    ELSE IF ContainsAny(lower(tag), StatedMiningTags) THEN 2
    ELSE 3

\* how many evidence-level and reference-level source tags of ms have the
\* stated quality q
StatedQualityCount(ms, q) ==
    Cardinality({i \in TaggedItems(ms) : StatedQuality(EvidenceSource(ms[i])) = q})
    + Cardinality({ij \in SourcedRefs(ms) :
        StatedQuality(RefsOf(ms[ij[1]])[ij[2]].source) = q})

\* EQS by the rule: 0.6 max + 0.4 mean of the qualities of the tags, 0.50
\* without any tag, times 0.7 when there are tags and all are of quality 0.5
StatedEQS(ms) ==
    LET n4 == StatedQualityCount(ms, 4)
        n3 == StatedQualityCount(ms, 3)
        n2 == StatedQualityCount(ms, 2)
        len == n4 + n3 + n2
        max_quality == IF n4 > 0 THEN 4 ELSE IF n3 > 0 THEN 3 ELSE 2
        factor == IF n2 > 0 /\ n4 = 0 /\ n3 = 0 THEN 7 ELSE 10
    IN  IF len = 0 THEN [num |-> 100, den |-> 200]
        ELSE [num |-> factor * (3 * max_quality * len + 2 * (4 * n4 + 3 * n3 + 2 * n2)),
              den |-> 200 * len]

\* C24: EQS follows the stated rule for every evidence list: quality 1.0 for
\* a tag containing chembl, fda, drugbank, ttd, dailymed, expert or
\* curated_manual, 0.5 for one containing europepmc, pubmed, mining,
\* automated or literature, 0.75 otherwise; EQS = 0.6 max + 0.4 mean; 0.50
\* when no source tag exists; times 0.7 exactly when there is a tag and every
\* tag is in the 0.5 bucket.
C24_EQSFollowsStatedRule ==
    (Scored /\ matches # <<>>) =>
        confidence_info.factors.eqs \in RoundTo(StatedEQS(matches), 1000)

\* the lists on which the rule and the scorer read the same tags: no tag
\* contains "ttd" or "automated" and every reference carries a source
OnlyCommonTags(ms) ==
    /\ \A i \in TaggedItems(ms) :
        ~ContainsAny(lower(EvidenceSource(ms[i])), {SRC_ttd, SRC_automated})
    /\ \A ij \in AllRefs(ms) :
        /\ ij \in SourcedRefs(ms)
        /\ ~ContainsAny(lower(RefsOf(ms[ij[1]])[ij[2]].source), {SRC_ttd, SRC_automated})

\* on those lists EQS is the value of the stated rule
EQSFollowsStatedRuleOnCommonTags ==
    (Scored /\ matches # <<>> /\ OnlyCommonTags(matches)) =>
        confidence_info.factors.eqs \in RoundTo(StatedEQS(matches), 1000)

\* a text-mining-only list was scored with the penalty: 0.7 * 0.5
PenalisedListScored ==
    /\ Scored
    /\ matches = <<Match(SRC_europepmc, None, None, Phase(1), None,
                         <<Ref(SRC_pubmed), Ref(SRC_literature)>>)>>
    /\ confidence_info.factors.eqs = 350

\* the three lists on which the scorer leaves the rule
TtdScoredAsGeneric ==
    /\ Scored
    /\ matches = <<Match(SRC_ttd, None, None, Phase(4), None, <<>>)>>
    /\ confidence_info.factors.eqs = 750

AutomatedNotPenalised ==
    /\ Scored
    /\ matches = <<Match(SRC_automated, None, None, Phase(2), None, <<>>)>>
    /\ confidence_info.factors.eqs = 500

SourcelessReferenceScored ==
    /\ Scored
    /\ matches = <<Match(None, None, None, 0, None, <<Ref(<<>>)>>)>>
    /\ confidence_info.source_count = 0
    /\ confidence_info.factors.eqs = 750

\* the first part of a reasoning string: the text before the first separator
TierLabel(reasoning) ==
    IF IndexOfSub(reasoning, Separator, 1) = 0 THEN reasoning
    ELSE SubSeq(reasoning, 1, IndexOfSub(reasoning, Separator, 1) - 1)

\* a single untagged record of a phase, and a single phase-0 record tagged
\* with a source
OfPhase(phase) == <<Match(None, None, None, phase, None, <<>>)>>

OfSource(source) == <<Match(None, source, None, 0, None, <<>>)>>

\* one list for every way into a branch of the ETS table with whole phases
\* and the tags "animal" and "preclinical"
WholePhaseExamples ==
    {OfPhase(Phase(4)), OfPhase(Phase(3)), OfPhase(Phase(2)), OfPhase(Phase(1)),
     OfPhase(0), OfSource(SRC_animal),
     OfSource(<<"p","r","e","c","l","i","n","i","c","a","l">>)}

\* and with the early phase and the tag "in_vivo"
BranchExamples == WholePhaseExamples \cup {OfPhase(EarlyPhase), OfSource(SRC_in_vivo)}

\* info and the results of the list other took the same ETS branch exactly
\* when they carry the same tier label
SameBranchSameLabel(info, other) ==
    \A r \in calculate_confidence(other) :
        (r.factors.ets = info.factors.ets)
            <=> (TierLabel(r.reasoning) = TierLabel(info.reasoning))

\* C25: the first part of the reasoning string is the tier label of the ETS
\* branch taken: a scored non-empty list and any list of another ETS branch
\* (phase 4, 3, 2, 1, 0.5, phase 0 with a preclinical, animal or in_vivo
\* tag, phase 0 without) carry different labels, and a list of the same
\* branch carries the same label.
C25_TierLabelMatchesETSBranch ==
    (Scored /\ matches # <<>>) =>
        \A other \in BranchExamples : SameBranchSameLabel(confidence_info, other)

\* the scored list has whole phases only and no record tagged "in_vivo"
WholePhasesNoInVivo(ms) ==
    /\ \A i \in 1..Len(ms) : PhaseOf(ms[i]) # EarlyPhase
    /\ ~HasPreclinical(ms, {SRC_in_vivo})

\* among lists with whole phases and without "in_vivo" tags the label does
\* identify the branch
TierLabelMatchesBranchOfWholePhases ==
    (Scored /\ matches # <<>> /\ WholePhasesNoInVivo(matches)) =>
        \A other \in WholePhaseExamples : SameBranchSameLabel(confidence_info, other)

\* a phase-0 list tagged "in_vivo" was scored in the preclinical branch and
\* labelled as literature-based, like an untagged phase-0 list
InVivoLabelledLiterature ==
    /\ Scored
    /\ matches = OfSource(SRC_in_vivo)
    /\ confidence_info.factors.ets = 25
    /\ \E r \in calculate_confidence(OfPhase(0)) :
        /\ r.factors.ets = 15
        /\ TierLabel(r.reasoning) = TierLabel(confidence_info.reasoning)

\* an early-phase list was scored in its own branch and labelled like an
\* untagged phase-0 list
EarlyPhaseLabelledLiterature ==
    /\ Scored
    /\ matches = OfPhase(EarlyPhase)
    /\ confidence_info.factors.ets = 35
    /\ \E r \in calculate_confidence(OfPhase(0)) :
        TierLabel(r.reasoning) = TierLabel(confidence_info.reasoning)

RECURSIVE SplitAt(_, _)
\* the parts of s between the occurrences of sep
SplitAt(s, sep) ==
    IF IndexOfSub(s, sep, 1) = 0 THEN <<s>>
    ELSE <<SubSeq(s, 1, IndexOfSub(s, sep, 1) - 1)>>
         \o SplitAt(SubSeq(s, IndexOfSub(s, sep, 1) + Len(sep), Len(s)), sep)

\* the kind of the source-diversity phrase of a reasoning string: its second
\* part without the number it shows
DiversityPhraseKind(reasoning) ==
    SelectSeq(SplitAt(reasoning, Separator)[2], LAMBDA ch : ch \notin DigitChars)

\* a single untagged phase-0 record whose references name k different sources
WithSources(k) ==
    <<Match(None, None, None, 0, None, [j \in 1..k |-> Ref(<<"s">> \o IntToStr(j))])>>

\* the results of the list of k sources that fall in the ECS bucket of info
\* carry the same kind of phrase as info
SameBucketSamePhrase(info, k) ==
    \A r \in calculate_confidence(WithSources(k)) :
        (r.source_count = k /\ r.factors.ecs = info.factors.ecs)
            => DiversityPhraseKind(r.reasoning) = DiversityPhraseKind(info.reasoning)

\* C26: the source-diversity phrase uses the thresholds of the ECS
\* bucketing (0, 1, 2, >= 3, >= 5, >= 7, >= 10): a scored non-empty list and
\* any list whose source count falls in the same ECS bucket carry the same
\* kind of phrase (so lists with different kinds of phrase are in different
\* buckets).
C26_DiversityPhraseFollowsECSBuckets ==
    (Scored /\ matches # <<>>) =>
        \A k \in 0..(confidence_info.source_count + 1) :
            SameBucketSamePhrase(confidence_info, k)

\* the same, leaving out the comparison of three sources with four
SameBucketSamePhraseButThreeAndFour ==
    (Scored /\ matches # <<>>) =>
        \A k \in 0..(confidence_info.source_count + 1) :
            {k, confidence_info.source_count} # {3, 4}
                => SameBucketSamePhrase(confidence_info, k)

\* a list with four sources was scored: it shares the ECS bucket 0.70 with
\* the list of three sources and carries another kind of phrase
FourSourcesPhrasedUnlikeThree ==
    /\ Scored
    /\ confidence_info.source_count = 4
    /\ confidence_info.factors.ecs = 70
    /\ \E r \in calculate_confidence(WithSources(3)) :
        /\ r.source_count = 3
        /\ r.factors.ecs = 70
        /\ DiversityPhraseKind(r.reasoning) # DiversityPhraseKind(confidence_info.reasoning)

\* lists with ten and with seven sources were scored in different ECS
\* buckets
TenSourcesScored ==
    /\ Scored
    /\ confidence_info.source_count = 10
    /\ confidence_info.factors.ecs = 100
    /\ \E r \in calculate_confidence(WithSources(7)) : r.factors.ecs = 95

(***************************************************************************)
(* Properties of search_candidates, checked under SpecCandidates           *)
(***************************************************************************)
\* search_candidates has returned after querying both collections
CandidatesAnswered == pc = "candidates_returned" /\ Len(calls) = 2

\* the entries of a collection's answer that lie strictly below 0.4 and
\* have the lowest distance of all entries
LowestBelowThreshold(res) ==
    {i \in 1..Len(res) :
        /\ res[i].dist < 40
        /\ \A j \in 1..Len(res) : res[j].dist >= res[i].dist}

\* the document of the first candidate with the lowest distance below 0.4,
\* None when no candidate is below 0.4
BestDocument(res) ==
    IF LowestBelowThreshold(res) = {} THEN None
    ELSE res[CHOOSE i \in LowestBelowThreshold(res) :
                \A j \in LowestBelowThreshold(res) : i <= j].doc

\* a target document as search_candidates gives it back: the text before
\* its first " (", e.g. "ERBB2" for "ERBB2 (HER2)"
SymbolOf(doc) ==
    IF doc # None /\ IndexOfSub(doc, <<" ", "(">>, 1) > 0
    THEN SubSeq(doc, 1, IndexOfSub(doc, <<" ", "(">>, 1) - 1)
    ELSE doc

\* candidate i is contained, ignoring case, in the document it was answered
IsSubstringOfHit(cands, res, i) == Contains(lower(res[i].doc), lower(cands[i]))

C28_ZeroScoreIffNoEvidence ==
    /\ Scored => (confidence_info.score = 0 <=> matches = <<>>)
    /\ (Scored /\ matches # <<>>) =>
        /\ confidence_info.score > 0
        /\ confidence_info.score >= 200
        /\ confidence_info.factors.ets >= 15
        /\ confidence_info.factors.ecs >= 10
        /\ confidence_info.factors.eqs >= 350
        /\ confidence_info.factors.cs >= 30
    /\ (Narrated /\ caller = "perform_analysis" /\ matches # <<>>) =>
        /\ ~DigestScoreIsZero
        /\ structured_evidence.metadata.confidence_score > 0
        /\ explanation # FALLBACK_PROMPT
        /\ llm_prompts # <<>>

\* perform_analysis has returned for one fetched phase-0 record without
\* mechanism: the digest carries a positive confidence and the generative
\* backend was asked
C28_Witness ==
    /\ Narrated
    /\ caller = "perform_analysis"
    /\ Len(matches) = 1
    /\ matches[1].phase = 0
    /\ confidence_info.score > 0
    /\ structured_evidence.metadata.confidence_score = confidence_info.score
    /\ llm_prompts # <<>>

\* the lowest score among the scored lists: an untagged phase-0 record
LowestScoreReached ==
    /\ Scored
    /\ caller = "direct"
    /\ matches = <<Match(None, None, None, 0, None, <<>>)>>
    /\ confidence_info.score = 335

\* the loop of query (a) is over
AfterQueryA == f_pc \in {"query_b", "query_b_wait", "aggregate", "done"}

\* every row of evidence is of the requested target and carries the
\* resolved drug
OnlyRequestedTarget(evidence) ==
    \A i \in 1..Len(evidence) :
        /\ evidence[i].target.id = target_id
        /\ evidence[i].drug = [name |-> canonical_drug_name, id |-> drug_id]

\* how the last attempt of query (a) ended, "" if there was none
LastOutcome ==
    IF LogOf("query_a") = <<>> THEN ""
    ELSE LogOf("query_a")[Len(LogOf("query_a"))].outcome

\* C29: retries of query (a) neither duplicate nor leak evidence: the list
\* is empty whenever an attempt is about to be made or is in flight, so the
\* list after the loop holds the rows of at most one response (at most
\* MaxRows of them, all of the requested target); it is empty when the loop
\* ended on a timeout, a refused request or a rejected status; and when every
\* attempt timed out the function returns the empty list.
C29_RetriesKeepOneResponse ==
    /\ f_pc \in {"query_a", "query_a_wait"} => all_evidence = <<>>
    /\ OnlyRequestedTarget(all_evidence)
    /\ AfterQueryA =>
        /\ Len(evidence_a) <= MaxRows
        /\ OnlyRequestedTarget(evidence_a)
        /\ LastOutcome \in {"", "timeout", "error", "http_error"} => evidence_a = <<>>
    /\ (f_pc = "done"
        /\ \A k \in 1..Len(LogOf("query_a")) : LogOf("query_a")[k].outcome = "timeout")
            => f_result = <<>>

\* two attempts timed out and the third answered two rows of the requested
\* target, which are the evidence and are returned
C29_Witness ==
    /\ f_pc = "done"
    /\ Len(LogOf("query_a")) = 3
    /\ LogOf("query_a")[1].outcome = "timeout"
    /\ LogOf("query_a")[2].outcome = "timeout"
    /\ LogOf("query_a")[3].outcome = "ok"
    /\ Len(evidence_a) = 2
    /\ OnlyRequestedTarget(evidence_a)
    /\ f_result # <<>>

\* all three permitted attempts timed out and the empty list was returned
AllTimedOutReturnsEmpty ==
    /\ f_pc = "done"
    /\ Len(LogOf("query_a")) = 3
    /\ \A k \in 1..3 : LogOf("query_a")[k].outcome = "timeout"
    /\ f_result = <<>>

\* a response whose second row has a null target: the first row stays
RowsBeforeABadRowKept ==
    /\ AfterQueryA
    /\ LastOutcome = "bad_body"
    /\ Len(evidence_a) = 1

\* ---------------------------------------------------------------------
\* A further property of extract_entities, checked under SpecExtract

\* the stage-2 drug lookups that returned a canonical name
ResolvingDrugLookups ==
    {i \in 1..Len(calls) :
        /\ calls[i].fn = "search_drug_id" /\ calls[i].step = 2
        /\ calls[i].returned /\ Truthy(calls[i].name)}

\* the stage-2 target lookups
Stage2TargetLookups ==
    {j \in 1..Len(calls) : calls[j].fn = "search_target_id" /\ calls[j].step = 2}

\* C30: in stage 2 the drug and the target are never resolved from the same
\* candidate string: the candidate whose lookup produced the resolved drug
\* is not submitted to the target lookup in the same run.
C30_DrugCandidateNotSubmittedAsTarget ==
    \A i \in ResolvingDrugLookups, j \in Stage2TargetLookups :
        calls[j].arg # calls[i].arg

\* the candidate that produced the drug goes to the target lookup only when
\* the resolver's name for the drug differs from it, ignoring case
DrugCandidateResubmittedUnderAnotherName ==
    \A i \in ResolvingDrugLookups, j \in Stage2TargetLookups :
        calls[j].arg = calls[i].arg => lower(calls[i].name) # lower(calls[i].arg)

\* a run returned a drug and a target that were both resolved in stage 2 from
\* the one candidate "BCR-ABL1"
BothResolvedFromOneCandidate ==
    /\ pc = "done"
    /\ candidates = <<W_BCR_ABL1>>
    /\ Len(calls) = 2
    /\ calls[1].fn = "search_drug_id" /\ calls[1].arg = W_BCR_ABL1
    /\ calls[2].fn = "search_target_id" /\ calls[2].arg = W_BCR_ABL1
    /\ result = <<calls[1].name, calls[2].name>>
    /\ Truthy(calls[1].name) /\ Truthy(calls[2].name)

====
